---- MODULE Spec2Model ----
(***************************************************************************)
(* opsipxeconfd: the daemon class Opsipxeconfd (opsipxeconfd.py), the      *)
(* control connections and the startup task (util.py) and the PXE config   *)
(* writer threads (pxeconfigwriter.py), as a state machine.  Every thread  *)
(* of the daemon is a process of the model; a step of the model is a       *)
(* stretch of code between two accesses to state shared between threads    *)
(* (the writer list, the PXE directory, a writer's _running flag, the      *)
(* remote service).                                                        *)
(***************************************************************************)
EXTENDS Integers, Sequences, FiniteSets, TLC

(* ---- bounds of the model ---- *)
MaxWriters == 2      \* PXEConfigWriter objects created in one run
MaxConns == 1        \* control connections handled at the same time
MaxCmds == 2         \* commands received on the control socket in one run
MaxReads == 1        \* times a booting client opens a fifo in one run
MaxSignals == 1      \* SIGTERM / SIGINT signals delivered in one run

(* ---- the world the daemon runs in ---- *)
Hosts == {"a", "b"}
BadHostId == "nodot"                 \* an argument forceHostId rejects
Products == {"n1", "n2"}
ActionRequests == {"none", "setup", "always"}

\* host_getObjects: the hardware address of each client ("a" and "b" were
\* given the same address)
HardwareAddress == [a |-> "m1", b |-> "m1"]
\* the netboot products of each client, in the order the service lists them
ProductsOf == [a |-> <<"n1">>, b |-> <<"n1", "n2">>]
\* configState_getClientToDepotserver(depotIds=[depotId]): "a" belongs to
\* another depot
DepotClients == {"b"}
\* configState clientconfig.dhcpd.filename: "b" is an elilo x64 client
EliloMode == [a |-> "", b |-> "x64"]
\* self.config
Config == [pxeDir |-> "pxeDir", pxeConfTemplate |-> "install", uefiConfTemplateX64 |-> "install-grub-x64"]
\* the directive lines of the template files
TemplateLines(templatefile) ==
  IF templatefile = "install-grub-x64" THEN <<"other", "linux">> ELSE <<"other", "append">>
\* backend_info(): a modules file without a valid signature, a verified one
\* without and one with the uefi module
Licenses == {"unverified", "plain", "uefi"}

WriterIds == 1..MaxWriters
Conns == (0 - MaxConns)..(0 - 1)     \* ClientConnection threads
StartupThread == 0                   \* the StartupTask thread
MainThread == 0 - MaxConns - 1       \* the main thread, which runs the signal handler
Threads == Conns \cup {StartupThread, MainThread} \cup WriterIds

VARIABLES
  pcws,      \* the PXEConfigWriter objects, by id
  reg,       \* Opsipxeconfd._pxeConfigWriters
  fs,        \* the PXE directory: path -> writer that created the fifo, 0 = absent
  readers,   \* fifo (by creating writer) -> an external reader waits in open()
  remote,    \* the service: client -> product -> action request
  license,   \* the service: what backend_info() reports
  upd,       \* per thread: its call of updateBootConfiguration / removeBootConfiguration
  startup,   \* the StartupTask thread
  nextId,    \* id of the next PXEConfigWriter object
  count,     \* commands received and fifos opened by clients so far
  obs,       \* observations per writer: stop() called, callbacks fired, piped
  conns,     \* Opsipxeconfd._clientConnections
  daemon,    \* the Opsipxeconfd thread: its position, _running, _socket, _startupTask
  depot,     \* the service: the clients of the depot of this daemon
  svc,       \* setup.get_service_connection: the service's answers and the attempts
  pidf,      \* util.temporaryPidFile: the pid file, the processes, the context
  render,    \* PXEConfigWriter.__init__: the template, the append map, the content
  names,     \* updateBootConfiguration for one host object: the name of its pxe file
  cfg,       \* Opsipxeconfd.config and the values an update has read from it
  menu,      \* setup.patchMenuFile: the values of the service and the grub menu file
  locks      \* the two mutexes of Opsipxeconfd and the handlers that run under them

vars == <<pcws, reg, fs, readers, remote, license, upd, startup, nextId, count, obs,
          conns, daemon, depot, svc, pidf, render, names, cfg, menu, locks>>

(* ---- pure helpers ---- *)

\* forceHostId: accepts a fully qualified name only
forceHostId(arg) == arg \in Hosts

\* Opsipxeconfd._getNameForPXEConfigFile
PXEConfigName(h) == <<"01-", HardwareAddress[h]>>

\* os.path.join(self.config['pxeDir'], pxeConfigName)
PxeFile(h) == <<Config.pxeDir, PXEConfigName(h)>>

Paths == {PxeFile(h) : h \in Hosts}

\* actionRequest=['setup', 'uninstall', 'update', 'always', 'once', 'custom']
Pending(req) == req \in {"setup", "always"}

RECURSIVE PendingProducts(_, _)
PendingProducts(h, prods) ==
  IF prods = <<>> THEN <<>>
  ELSE IF Pending(remote[h][Head(prods)])
       THEN <<Head(prods)>> \o PendingProducts(h, Tail(prods))
       ELSE PendingProducts(h, Tail(prods))

\* productOnClient_getObjects(clientId=hostId, actionRequest=[...])
productOnClient_getObjects(h) == PendingProducts(h, ProductsOf[h])

\* PXEConfigWriter._getPXEConfigContent, the flags it leaves on the writer:
\* the state after the lines, or raised = TRUE
RECURSIVE RenderFlags(_, _, _)
RenderFlags(lines, uefiModule, st) ==
  IF lines = <<>> \/ st.raised THEN st
  ELSE LET line == Head(lines) IN
       IF line = "append=" THEN
         RenderFlags(Tail(lines), uefiModule,
                     [st EXCEPT !.uefi = TRUE, !.raised = ~uefiModule])
       ELSE IF line = "append" THEN
         RenderFlags(Tail(lines), uefiModule, [st EXCEPT !.uefi = FALSE])
       ELSE IF line = "linux" THEN
         IF ~uefiModule /\ st.uefi THEN [st EXCEPT !.raised = TRUE]
         ELSE RenderFlags(Tail(lines), uefiModule,
                          [st EXCEPT !.uefi = TRUE, !.usingGrub = TRUE])
       ELSE RenderFlags(Tail(lines), uefiModule, st)

_getPXEConfigContent(templatefile, uefiModule) ==
  RenderFlags(TemplateLines(templatefile), uefiModule,
              [uefi |-> FALSE, usingGrub |-> FALSE, raised |-> FALSE])

\* list.remove(x), tolerating ValueError
RECURSIVE ListRemove(_, _)
ListRemove(list, x) ==
  IF list = <<>> THEN <<>>
  ELSE IF Head(list) = x THEN Tail(list)
  ELSE <<Head(list)>> \o ListRemove(Tail(list), x)

InList(list, x) == \E i \in 1..Len(list) : list[i] = x

Terminated(w) == pcws[w].pc \in {"done", "crashed"}
Created(w) == pcws[w].pc # "none"

\* Opsipxeconfd._getPxeConfigTemplate: the uefi template for an elilo client,
\* else the default template (the products name no template of their own)
TemplateFile(h) ==
  IF EliloMode[h] = "x64" THEN Config.uefiConfTemplateX64 ELSE Config.pxeConfTemplate

(* ---- initial state ---- *)

NoWriter == [host |-> "", pocs |-> <<>>, templatefile |-> "", early |-> FALSE,
             uefi |-> FALSE, uefiModule |-> FALSE, usingGrub |-> FALSE,
             pc |-> "none", running |-> FALSE, pipeOpened |-> FALSE]

IdleFrame == [pc |-> "idle", op |-> "", host |-> "", currentPcws |-> <<>>, todo |-> <<>>,
              pocs |-> <<>>, w |-> 0, res |-> "none",
              argc |-> 0, n |-> 0, m |-> 0, listed |-> <<>>]

NoObs == [stopCalled |-> FALSE, callbacks |-> 0, registered |-> FALSE]

\* StartupTask.__init__ and start(): the thread is about to run; calls is
\* the list of the clients it called updateBootConfiguration for
NewStartupTask == [pc |-> "new", clientIds |-> {}, shouldStop |-> FALSE, calls |-> <<>>,
                   pending |-> {}, failed |-> {}]

\* the Opsipxeconfd thread inside the loop of run(), line 207: the startup
\* task is started and the socket listens; stops counts the finished calls
\* of stop()
AcceptingDaemon == [pc |-> "loop", running |-> TRUE, socket |-> "open",
                    startupTask |-> "started", stops |-> 0]

\* no call of get_service_connection and no pid file context
NoService == [pc |-> "none"]
NoPidFile == [pc |-> "none"]
\* no writer under construction, no update of a host object, no reload and
\* no patch of the menu file
NotCalled == [pc |-> "none"]

PendingHosts(clientIds) ==
  {h \in clientIds : \E i \in 1..Len(ProductsOf[h]) : Pending(remote[h][ProductsOf[h][i]])}

Init ==
  /\ pcws = [w \in WriterIds |-> NoWriter]
  /\ reg = <<>>
  /\ fs = [p \in Paths |-> 0]
  /\ readers = [w \in WriterIds |-> FALSE]
  /\ remote \in [Hosts -> [Products -> ActionRequests]]
  /\ remote["a"]["n1"] = "setup" /\ remote["a"]["n2"] = "none"
  /\ remote["b"]["n1"] # "none"
  /\ remote["b"]["n2"] # "always"
  /\ remote["b"]["n1"] = "always" => remote["b"]["n2"] = "setup"
  /\ license \in Licenses
  /\ upd = [t \in Threads |-> IdleFrame]
  /\ startup = NewStartupTask
  /\ nextId = 1
  /\ count = [cmds |-> 0, reads |-> 0, signals |-> 0]
  /\ obs = [w \in WriterIds |-> NoObs]
  /\ conns = <<>>
  /\ daemon = AcceptingDaemon
  /\ depot = DepotClients
  /\ svc = NoService
  /\ render = NotCalled
  /\ names = NotCalled
  /\ cfg = NotCalled
  /\ menu = NotCalled
  /\ locks = NotCalled
  /\ pidf = NoPidFile

(* ---- the environment ---- *)

\* a booting client (through the tftp server) opens the fifo at path p for
\* reading and waits for a writer
ReaderOpen(p) ==
  /\ fs[p] # 0
  /\ ~readers[fs[p]]
  /\ count.reads < MaxReads
  /\ count' = [count EXCEPT !.reads = count.reads + 1]
  /\ readers' = [readers EXCEPT ![fs[p]] = TRUE]
  /\ UNCHANGED <<pcws, reg, fs, remote, license, upd, startup, nextId, obs,
               conns, daemon, depot, svc, pidf,
               render, names, cfg, menu, locks>>

(* ---- ClientConnection ---- *)

\* the frame of a thread entering updateBootConfiguration / removeBootConfiguration
CallFrame(op, h) == [IdleFrame EXCEPT !.pc = "remove", !.op = op, !.host = h]
ErrorFrame(op, h) == [IdleFrame EXCEPT !.pc = "ret", !.op = op, !.host = h, !.res = "error"]
Return(f, res) == [f EXCEPT !.pc = "ret", !.res = res]

\* ClientConnection._processCommand, lines 256-270: "update <hostId>" and
\* "remove <hostId>"; forceHostId raises on a bad id and the reply is the
\* error marker
_processCommand(cmd, arg) ==
  IF forceHostId(arg) THEN CallFrame(cmd, arg) ELSE ErrorFrame(cmd, arg)

\* the frames of a thread entering Opsipxeconfd.stop and Opsipxeconfd.status
StopFrame == [IdleFrame EXCEPT !.pc = "stopTask", !.op = "stop"]
\* variant: the status command runs the removal of the writers of "b"
StatusFrameRemoves == [IdleFrame EXCEPT !.pc = "remove", !.op = "status", !.host = "b"]
StatusFrame == [IdleFrame EXCEPT !.pc = "status", !.op = "status"]

\* ClientConnection._processCommand, lines 242-275, on the words of the
\* command: the first word is the command, "stop" and "status" do not look
\* at the rest, "update" takes one or two arguments (the second names a
\* cache file, and no cache file exists), "remove" takes one; everything
\* else raises and the reply is the error marker
ProcessLine(line) ==
  LET command == IF line = <<>> THEN "" ELSE Head(line)
      arguments == IF line = <<>> THEN <<>> ELSE Tail(line)
      first == IF arguments = <<>> THEN "" ELSE Head(arguments)
      frame == IF command = "stop" THEN StopFrame
               ELSE IF command = "status" THEN StatusFrame
               ELSE IF command = "update" /\ Len(arguments) \in {1, 2}
                 THEN _processCommand("update", first)
               ELSE IF command = "remove" /\ Len(arguments) = 1
                 THEN _processCommand("remove", first)
               ELSE ErrorFrame(command, first) IN
  [frame EXCEPT !.argc = Len(arguments)]

\* the accept loop of Opsipxeconfd.run, line 207, is in _getConnection
Listening == daemon.pc = "loop" /\ daemon.running /\ daemon.socket = "open"

\* Opsipxeconfd._getConnection and ClientConnection.run, lines 196-206: a
\* client connects, the connection is appended to the list and its thread
\* started, the thread receives the command and calls the handler
Receive(c, line) ==
  /\ Listening
  /\ upd[c].pc = "idle"
  /\ count.cmds < MaxCmds
  /\ count' = [count EXCEPT !.cmds = count.cmds + 1]
  /\ conns' = Append(conns, c)
  /\ upd' = [upd EXCEPT ![c] = ProcessLine(line)]
  /\ UNCHANGED <<pcws, reg, fs, readers, remote, license, startup, nextId, obs,
               daemon, depot, svc, pidf,
               render, names, cfg, menu, locks>>

\* a client that sends "<cmd> <arg>"
Accept(c, cmd, arg) == Receive(c, <<cmd, arg>>)

\* ClientConnection.run, lines 197-202: a client connects and sends nothing
\* for 2 s: recv raises socket.timeout and the finally clause is next
RecvTimeout(c) ==
  /\ Listening
  /\ upd[c].pc = "idle"
  /\ count.cmds < MaxCmds
  /\ count' = [count EXCEPT !.cmds = count.cmds + 1]
  /\ conns' = Append(conns, c)
  /\ upd' = [upd EXCEPT ![c] = [IdleFrame EXCEPT !.pc = "cb", !.res = "timeout"]]
  /\ UNCHANGED <<pcws, reg, fs, readers, remote, license, startup, nextId, obs,
               daemon, depot, svc, pidf,
               render, names, cfg, menu, locks>>

\* lines 209-212: what goes over the socket; the "result" None of the
\* handler has no encode(), the AttributeError is caught and logged
SendResult(res) == IF res = "None" THEN "nothing" ELSE res

\* ClientConnection.run, lines 207-212: socket.send(result.encode()); res
\* keeps what was sent
Reply(c) ==
  /\ upd[c].pc = "ret"
  /\ upd' = [upd EXCEPT ![c] = [IdleFrame EXCEPT !.pc = "cb",
                                                 !.res = SendResult(upd[c].res)]]
  /\ UNCHANGED <<pcws, reg, fs, readers, remote, license, startup, nextId, count, obs,
               conns, daemon, depot, svc, pidf,
               render, names, cfg, menu, locks>>

\* variant: the callback leaves the connection in the list
ClientCallbackRegistryKept(c) == conns
\* Opsipxeconfd.clientConnectionCallback, lines 224-229
ClientCallbackRegistry(c) == ListRemove(conns, c)

\* ClientConnection.run, lines 213-215, the finally clause (nothing calls
\* ClientConnection.stop, so _running is True): the callback takes the
\* connection out of the list, the socket is closed, the thread ends
ConnCallback(c) ==
  /\ upd[c].pc = "cb"
  /\ conns' = ClientCallbackRegistry(c)
  /\ upd' = [upd EXCEPT ![c] = IdleFrame]
  /\ UNCHANGED <<pcws, reg, fs, readers, remote, license, startup, nextId, count, obs,
               daemon, depot, svc, pidf,
               render, names, cfg, menu, locks>>

(* ---- Opsipxeconfd.status ---- *)

\* lines 283-289: the number of connections (under the lock) and the number
\* of writers
StatusCount(t) ==
  /\ upd[t].pc = "status"
  /\ upd' = [upd EXCEPT ![t].pc = "statusList", ![t].n = Len(conns), ![t].m = Len(reg)]
  /\ UNCHANGED <<pcws, reg, fs, readers, remote, license, startup, nextId, count, obs,
               conns, daemon, depot, svc, pidf,
               render, names, cfg, menu, locks>>

\* lines 290-298: the loop over self._pxeConfigWriters (taken in one step:
\* the writers the text lists are the list as it is then) and the return
StatusList(t) ==
  /\ upd[t].pc = "statusList"
  /\ upd' = [upd EXCEPT ![t] = Return([upd[t] EXCEPT !.listed = reg], "status")]
  /\ UNCHANGED <<pcws, reg, fs, readers, remote, license, startup, nextId, count, obs,
               conns, daemon, depot, svc, pidf,
               render, names, cfg, menu, locks>>

(* ---- Opsipxeconfd.run and stop ---- *)

\* the Opsipxeconfd thread after start() and before run() has begun
StartedDaemon == [pc |-> "start", running |-> FALSE, socket |-> "none",
                  startupTask |-> "none", stops |-> 0]

\* line 199: self._running = True
DaemonBegin ==
  /\ daemon.pc = "start"
  /\ daemon' = [daemon EXCEPT !.pc = "setup", !.running = TRUE]
  /\ UNCHANGED <<pcws, reg, fs, readers, remote, license, upd, startup, nextId, count, obs,
               conns, depot, svc, pidf,
               render, names, cfg, menu, locks>>

\* lines 202-205: the backend, then the startup task is created and started
DaemonStartupTask ==
  /\ daemon.pc = "setup"
  /\ daemon' = [daemon EXCEPT !.pc = "socket", !.startupTask = "started"]
  /\ startup' = NewStartupTask
  /\ UNCHANGED <<pcws, reg, fs, readers, remote, license, upd, nextId, count, obs,
               conns, depot, svc, pidf,
               render, names, cfg, menu, locks>>

\* line 206: _createSocket makes a new socket, binds it and listens
DaemonCreateSocket ==
  /\ daemon.pc = "socket"
  /\ daemon' = [daemon EXCEPT !.pc = "loop", !.socket = "open"]
  /\ UNCHANGED <<pcws, reg, fs, readers, remote, license, upd, startup, nextId, count, obs,
               conns, depot, svc, pidf,
               render, names, cfg, menu, locks>>

\* lines 207-213: the loop ends when _running is False, and accept() on a
\* closed socket raises an error that run() logs; finally _running = False
DaemonExit ==
  /\ daemon.pc = "loop"
  /\ ~Listening
  /\ daemon' = [daemon EXCEPT !.pc = "exit", !.running = FALSE]
  /\ UNCHANGED <<pcws, reg, fs, readers, remote, license, upd, startup, nextId, count, obs,
               conns, depot, svc, pidf,
               render, names, cfg, menu, locks>>

\* OpsipxeconfdInit.signalHandler, lines 1025-1029: SIGTERM or SIGINT makes
\* the main thread call Opsipxeconfd.stop
Signal ==
  /\ upd[MainThread].pc = "idle"
  /\ count.signals < MaxSignals
  /\ count' = [count EXCEPT !.signals = count.signals + 1]
  /\ upd' = [upd EXCEPT ![MainThread] = StopFrame]
  /\ UNCHANGED <<pcws, reg, fs, readers, remote, license, startup, nextId, obs,
               conns, daemon, depot, svc, pidf,
               render, names, cfg, menu, locks>>

\* Opsipxeconfd.stop, lines 103-111: self._startupTask.stop() and join(10),
\* which returns when the task has ended or the time is up; without a
\* startup task the AttributeError is passed over
StopStartupTask(t) ==
  /\ upd[t].pc = "stopTask"
  /\ startup' = IF daemon.startupTask = "none" THEN startup
                ELSE [startup EXCEPT !.shouldStop = TRUE]
  /\ upd' = [upd EXCEPT ![t].pc = "stopSocket"]
  /\ UNCHANGED <<pcws, reg, fs, readers, remote, license, nextId, count, obs,
               conns, daemon, depot, svc, pidf,
               render, names, cfg, menu, locks>>

\* Opsipxeconfd.stop, lines 113-116: self._socket.close(); without a socket
\* the error is logged
StopSocket(t) ==
  /\ upd[t].pc = "stopSocket"
  /\ daemon' = [daemon EXCEPT !.socket = IF daemon.socket = "none" THEN "none" ELSE "closed"]
  /\ upd' = [upd EXCEPT ![t].pc = "stopFlag"]
  /\ UNCHANGED <<pcws, reg, fs, readers, remote, license, startup, nextId, count, obs,
               conns, depot, svc, pidf,
               render, names, cfg, menu, locks>>

\* Opsipxeconfd.stop, line 118: self._running = False; the stop command
\* returns its text (util.py line 253)
StopFlag(t) ==
  /\ upd[t].pc = "stopFlag"
  /\ daemon' = [daemon EXCEPT !.running = FALSE, !.stops = 1]
  /\ upd' = [upd EXCEPT ![t] = IF t = MainThread THEN IdleFrame
                               ELSE Return(upd[t], "going down")]
  /\ UNCHANGED <<pcws, reg, fs, readers, remote, license, startup, nextId, count, obs,
               conns, depot, svc, pidf,
               render, names, cfg, menu, locks>>

(* ---- Opsipxeconfd._removeCurrentConfigWriters ---- *)

\* a variant that stops at the first writer of the host
CurrentPcwsFirst(hostId) ==
  LET all == SelectSeq(reg, LAMBDA w : pcws[w].host = hostId) IN
  IF all = <<>> THEN <<>> ELSE <<Head(all)>>

\* [pcw for pcw in self._pxeConfigWriters if pcw.hostId == hostId]
CurrentPcws(hostId) == SelectSeq(reg, LAMBDA w : pcws[w].host = hostId)

\* the list after self._pxeConfigWriters.remove(pcw) for each of them
RECURSIVE RemoveAll(_, _)
RemoveAll(list, pcwList) ==
  IF pcwList = <<>> THEN list
  ELSE RemoveAll(ListRemove(list, Head(pcwList)), Tail(pcwList))

\* Opsipxeconfd.removeBootConfiguration, which util.py calls and
\* opsipxeconfd.py does not define; modelled after its description: it calls
\* _removeCurrentConfigWriters(hostId) and returns "Boot configuration removed"
removeBootConfiguration(f) == Return(f, "removed")

\* a variant that goes on without the loop over the collected writers
AfterRemoveNoStop(f) ==
  IF f.op = "remove" THEN removeBootConfiguration(f)
  ELSE [f EXCEPT !.pc = "check"]

\* after _removeCurrentConfigWriters: line 305 of updateBootConfiguration
\* goes on with the lookup of the product actions
AfterRemove(f) ==
  IF f.todo # <<>> THEN [f EXCEPT !.pc = "stop"]
  ELSE IF f.op = "remove" THEN removeBootConfiguration(f)
  ELSE [f EXCEPT !.pc = "check"]

\* the block under self._pxeConfigWritersLock
RemoveCurrentCollect(t) ==
  /\ upd[t].pc = "remove"
  /\ upd' = [upd EXCEPT ![t] = AfterRemove([upd[t] EXCEPT !.currentPcws = CurrentPcws(upd[t].host),
                                                          !.todo = CurrentPcws(upd[t].host)])]
  /\ reg' = RemoveAll(reg, CurrentPcws(upd[t].host))
  /\ UNCHANGED <<pcws, fs, readers, remote, license, startup, nextId, count, obs,
               conns, daemon, depot, svc, pidf,
               render, names, cfg, menu, locks>>

\* a variant that waits until the thread of the writer has ended
RemoveCurrentStopJoins(t) ==
  /\ upd[t].pc = "stop"
  /\ Terminated(Head(upd[t].todo))
  /\ LET w == Head(upd[t].todo) IN
     /\ pcws' = [pcws EXCEPT ![w].running = FALSE]
     /\ obs' = [obs EXCEPT ![w].stopCalled = TRUE]
     /\ upd' = [upd EXCEPT ![t] = AfterRemove([upd[t] EXCEPT !.todo = Tail(upd[t].todo)])]
  /\ UNCHANGED <<reg, fs, readers, remote, license, startup, nextId, count,
               conns, daemon, depot, svc, pidf,
               render, names, cfg, menu, locks>>

\* for pcw in currentPcws: pcw.stop(), then the wait of at most 10 * 0.1 s
\* and join(1), which ends when the thread has ended or when the time is up
RemoveCurrentStop(t) ==
  /\ upd[t].pc = "stop"
  /\ LET w == Head(upd[t].todo) IN
     /\ pcws' = [pcws EXCEPT ![w].running = FALSE]
     /\ obs' = [obs EXCEPT ![w].stopCalled = TRUE]
     /\ upd' = [upd EXCEPT ![t] = AfterRemove([upd[t] EXCEPT !.todo = Tail(upd[t].todo)])]
  /\ UNCHANGED <<reg, fs, readers, remote, license, startup, nextId, count,
               conns, daemon, depot, svc, pidf,
               render, names, cfg, menu, locks>>

(* ---- Opsipxeconfd.updateBootConfiguration ---- *)

\* lines 383-392, the loop over self._pxeConfigWriters:
\* "error" an exception, "exists" the return without a value, "unlink" the
\* fall through to os.unlink(pxefile)
RECURSIVE ScanWriters(_, _, _)
ScanWriters(list, pxefile, hostId) ==
  IF list = <<>> THEN "unlink"
  ELSE LET pcw == pcws[Head(list)] IN
       IF pcw.uefi /\ ~pcw.uefiModule THEN "error"
       ELSE IF PxeFile(pcw.host) = pxefile
            THEN IF hostId = pcw.host THEN "exists" ELSE "error"
            ELSE ScanWriters(Tail(list), pxefile, hostId)

\* line 382: only a file that exists makes the daemon look at the writers
CheckResult(hostId) ==
  IF fs[PxeFile(hostId)] # 0 THEN ScanWriters(reg, PxeFile(hostId), hostId) ELSE "absent"

\* lines 307-394: the pending product actions of the client (none: return),
\* the host, the template, the file name, the check of an existing file and
\* the unlink of a file no writer owns
CheckExisting(t) ==
  /\ upd[t].pc = "check"
  /\ LET h == upd[t].host
         productOnClients == productOnClient_getObjects(h)
         r == CheckResult(h) IN
     IF productOnClients = <<>> THEN
       /\ upd' = [upd EXCEPT ![t] = Return(upd[t], "updated")]
       /\ UNCHANGED fs
     ELSE IF r = "error" THEN
       /\ upd' = [upd EXCEPT ![t] = Return(upd[t], "error")]
       /\ UNCHANGED fs
     ELSE IF r = "exists" THEN
       /\ upd' = [upd EXCEPT ![t] = Return(upd[t], "None")]
       /\ UNCHANGED fs
     ELSE
       /\ upd' = [upd EXCEPT ![t].pc = "ctor", ![t].pocs = productOnClients]
       /\ fs' = [fs EXCEPT ![PxeFile(h)] = 0]
  /\ UNCHANGED <<pcws, reg, readers, remote, license, startup, nextId, count, obs,
               conns, daemon, depot, svc, pidf,
               render, names, cfg, menu, locks>>

(* ---- PXEConfigWriter.__init__ ---- *)

\* the object after lines 73-167; lic is what backend_info() reported
NewWriter(hostId, productOnClients, lic) ==
  LET uefiModule == (lic = "uefi")
      flags == _getPXEConfigContent(TemplateFile(hostId), uefiModule) IN
  [NoWriter EXCEPT !.host = hostId, !.pocs = productOnClients,
                   !.templatefile = TemplateFile(hostId),
                   !.early = (lic = "unverified"),
                   !.uefiModule = (lic = "uefi"),
                   !.uefi = IF lic = "unverified" THEN FALSE ELSE flags.uefi,
                   !.usingGrub = IF lic = "unverified" THEN FALSE ELSE flags.usingGrub,
                   !.pc = "new"]

\* line 446 of opsipxeconfd.py, the constructor: a modules file that fails
\* the signature check makes it return early (no content, no file), an
\* unlicensed elilo template makes it raise (the handler of lines 452-461
\* finds pcw = None), else lines 169-172 replace the file at the path by a
\* new fifo
Construct(t) ==
  /\ upd[t].pc = "ctor"
  /\ nextId <= MaxWriters
  /\ LET h == upd[t].host IN
     IF license = "unverified" THEN
       /\ pcws' = [pcws EXCEPT ![nextId] = NewWriter(h, upd[t].pocs, license)]
       /\ upd' = [upd EXCEPT ![t].pc = "register", ![t].w = nextId]
       /\ nextId' = nextId + 1
       /\ UNCHANGED fs
     ELSE IF _getPXEConfigContent(TemplateFile(h), license = "uefi").raised THEN
       /\ upd' = [upd EXCEPT ![t] = Return(upd[t], "error")]
       /\ UNCHANGED <<pcws, nextId, fs>>
     ELSE
       /\ pcws' = [pcws EXCEPT ![nextId] = NewWriter(h, upd[t].pocs, license)]
       /\ upd' = [upd EXCEPT ![t].pc = "register", ![t].w = nextId]
       /\ nextId' = nextId + 1
       /\ fs' = [fs EXCEPT ![PxeFile(h)] = nextId]
  /\ UNCHANGED <<reg, readers, remote, license, startup, count, obs,
               conns, daemon, depot, svc, pidf,
               render, names, cfg, menu, locks>>

\* lines 447-448
Register(t) ==
  /\ upd[t].pc = "register"
  /\ reg' = Append(reg, upd[t].w)
  /\ obs' = [obs EXCEPT ![upd[t].w].registered = TRUE]
  /\ upd' = [upd EXCEPT ![t].pc = "start"]
  /\ UNCHANGED <<pcws, fs, readers, remote, license, startup, nextId, count,
               conns, daemon, depot, svc, pidf,
               render, names, cfg, menu, locks>>

\* lines 449-451: pcw.start()
Start(t) ==
  /\ upd[t].pc = "start"
  /\ pcws' = [pcws EXCEPT ![upd[t].w].pc = "started"]
  /\ upd' = [upd EXCEPT ![t] = Return(upd[t], "updated")]
  /\ UNCHANGED <<reg, fs, readers, remote, license, startup, nextId, count, obs,
               conns, daemon, depot, svc, pidf,
               render, names, cfg, menu, locks>>

(* ---- PXEConfigWriter.run and stop ---- *)

\* line 252: self._running = True
WriterBegin(w) ==
  /\ pcws[w].pc = "started"
  /\ pcws' = [pcws EXCEPT ![w].pc = "loop", ![w].running = TRUE]
  /\ UNCHANGED <<reg, fs, readers, remote, license, upd, startup, nextId, count, obs,
               conns, daemon, depot, svc, pidf,
               render, names, cfg, menu, locks>>

\* line 259: "if hasattr(err, "errno") or err.errno != 6: raise"; an OSError
\* has the attribute errno
ReraiseOpenError(errno) == TRUE \/ errno # 6

\* os.open(self.pxefile, O_WRONLY | O_NONBLOCK): 0 when the fifo opened, else
\* the errno: 2 without a file, 6 (ENXIO) without a reader
OpenFifo(p) == IF fs[p] = 0 THEN 2 ELSE IF readers[fs[p]] THEN 0 ELSE 6

\* lines 254-268, one turn of the loop: a stop request ends it, an opened
\* pipe gets the content (a writer whose constructor returned early has no
\* content and raises AttributeError), a failed open raises or sleeps
WriterOpen(w) ==
  /\ pcws[w].pc = "loop"
  /\ LET p == PxeFile(pcws[w].host) IN
     IF ~pcws[w].running THEN
       /\ pcws' = [pcws EXCEPT ![w].pc = "unlink"]
       /\ UNCHANGED readers
     ELSE IF OpenFifo(p) = 0 THEN
       IF pcws[w].early
       THEN /\ pcws' = [pcws EXCEPT ![w].pc = "crashed"]
            /\ UNCHANGED readers
       ELSE /\ pcws' = [pcws EXCEPT ![w].pc = "unlink", ![w].pipeOpened = TRUE]
            /\ readers' = [readers EXCEPT ![fs[p]] = FALSE]
     ELSE IF ReraiseOpenError(OpenFifo(p)) THEN
       /\ pcws' = [pcws EXCEPT ![w].pc = "crashed"]
       /\ UNCHANGED readers
     ELSE
       UNCHANGED <<pcws, readers>>
  /\ UNCHANGED <<reg, fs, remote, license, upd, startup, nextId, count, obs,
               conns, daemon, depot, svc, pidf,
               render, names, cfg, menu, locks>>

\* a variant that leaves the file where it is
UnlinkedFsKept(p) == fs

\* lines 270-271: if os.path.exists(self.pxefile): os.unlink(self.pxefile)
UnlinkedFs(p) == [fs EXCEPT ![p] = 0]

\* a variant that calls the callback whether or not the pipe was opened
AfterUnlinkAlways(pipeOpened) == "cb"

\* line 273: "if pipeOpenend and self._callback" (the daemon always passes
\* its callback): the callback is next, or the thread ends
AfterUnlink(pipeOpened) == IF pipeOpened THEN "cb" ELSE "done"

\* lines 270-273
WriterUnlink(w) ==
  /\ pcws[w].pc = "unlink"
  /\ fs' = UnlinkedFs(PxeFile(pcws[w].host))
  /\ pcws' = [pcws EXCEPT ![w].pc = AfterUnlink(pcws[w].pipeOpened)]
  /\ UNCHANGED <<reg, readers, remote, license, upd, startup, nextId, count, obs,
               conns, daemon, depot, svc, pidf,
               render, names, cfg, menu, locks>>

(* ---- Opsipxeconfd.pxeConfigWriterCallback ---- *)

\* lines 244-252: self._pxeConfigWriters.remove(pcw) under the lock
CallbackRegistry(w) == ListRemove(reg, w)

\* a variant that resets the request whatever the template
NewActionRequestAnyTemplate(templatefile, actionRequest, gotAlways) ==
  IF ~gotAlways THEN "none" ELSE actionRequest

\* lines 269-272: the action request the callback leaves on one
\* ProductOnClient; gotAlways is the flag after line 270
NewActionRequest(templatefile, actionRequest, gotAlways) ==
  IF templatefile # Config.pxeConfTemplate /\ ~gotAlways THEN "none" ELSE actionRequest

\* lines 254-272: the loop over pcw.productOnClients, each renewed from the
\* service; the result is the flag gotAlways and the requests to write back
RECURSIVE CallbackLoop(_, _, _, _)
CallbackLoop(w, pocs, gotAlways, acc) ==
  IF pocs = <<>> THEN [gotAlways |-> gotAlways, requests |-> acc]
  ELSE LET req == remote[pcws[w].host][Head(pocs)]
           got == gotAlways \/ req = "always" IN
       CallbackLoop(w, Tail(pocs), got,
                    [acc EXCEPT ![Head(pocs)] = NewActionRequest(pcws[w].templatefile, req, got)])

\* lines 235-277: the writer leaves the list, its product actions are
\* written back, and with an "always" request the callback calls
\* updateBootConfiguration itself
Callback(w) ==
  /\ pcws[w].pc = "cb"
  /\ reg' = CallbackRegistry(w)
  /\ obs' = [obs EXCEPT ![w].callbacks = obs[w].callbacks + 1]
  /\ LET r == CallbackLoop(w, pcws[w].pocs, FALSE, remote[pcws[w].host]) IN
     /\ remote' = [remote EXCEPT ![pcws[w].host] = r.requests]
     /\ IF r.gotAlways
        THEN /\ pcws' = [pcws EXCEPT ![w].pc = "cbupd"]
             /\ upd' = [upd EXCEPT ![w] = CallFrame("update", pcws[w].host)]
        ELSE /\ pcws' = [pcws EXCEPT ![w].pc = "done"]
             /\ UNCHANGED upd
  /\ UNCHANGED <<fs, readers, license, startup, nextId, count,
               conns, daemon, depot, svc, pidf,
               render, names, cfg, menu, locks>>

\* a variant in which the thread runs the callback once more
CallbackReturnAgain(w) ==
  /\ pcws[w].pc = "cbupd"
  /\ upd[w].pc = "ret"
  /\ pcws' = [pcws EXCEPT ![w].pc = "cb"]
  /\ upd' = [upd EXCEPT ![w] = IdleFrame]
  /\ UNCHANGED <<reg, fs, readers, remote, license, startup, nextId, count, obs,
               conns, daemon, depot, svc, pidf,
               render, names, cfg, menu, locks>>

\* line 277 returns (or raises) and the thread ends
CallbackReturn(w) ==
  /\ pcws[w].pc = "cbupd"
  /\ upd[w].pc = "ret"
  /\ pcws' = [pcws EXCEPT ![w].pc = IF upd[w].res = "error" THEN "crashed" ELSE "done"]
  /\ upd' = [upd EXCEPT ![w] = IdleFrame]
  /\ UNCHANGED <<reg, fs, readers, remote, license, startup, nextId, count, obs,
               conns, daemon, depot, svc, pidf,
               render, names, cfg, menu, locks>>

(* ---- StartupTask.run ---- *)

\* lines 113-129: the clients of the depot with a pending netboot action;
\* pending keeps the set as it was found
StartupBegin ==
  /\ startup.pc = "new"
  /\ startup' = [startup EXCEPT !.pc = "loop", !.clientIds = PendingHosts(depot),
                                !.pending = PendingHosts(depot)]
  /\ UNCHANGED <<pcws, reg, fs, readers, remote, license, upd, nextId, count, obs,
               conns, daemon, depot, svc, pidf,
               render, names, cfg, menu, locks>>

\* lines 135-138: the clients whose update raised so far; the exception of
\* updateBootConfiguration(clientId) is caught and logged
Failed ==
  IF upd[StartupThread].pc = "ret" /\ upd[StartupThread].res = "error"
  THEN startup.failed \cup {upd[StartupThread].host}
  ELSE startup.failed

\* a variant in which an exception of one update ends the loop
RemainingAborts(clientIds, failed) == IF failed # {} THEN {} ELSE clientIds

\* line 131: the clients the loop still has to visit, whatever the updates
\* before did
Remaining(clientIds, failed) == clientIds

\* a variant that does not look at the stop flag
StartupNextIgnoresStop(h) ==
  /\ startup.pc = "loop"
  /\ upd[StartupThread].pc \in {"idle", "ret"}
  /\ h \in Remaining(startup.clientIds, Failed)
  /\ startup' = [startup EXCEPT !.clientIds = startup.clientIds \ {h},
                                !.calls = Append(startup.calls, h),
                                !.failed = Failed]
  /\ upd' = [upd EXCEPT ![StartupThread] = CallFrame("update", h)]
  /\ UNCHANGED <<pcws, reg, fs, readers, remote, license, nextId, count, obs,
               conns, daemon, depot, svc, pidf,
               render, names, cfg, menu, locks>>

\* lines 131-138: the next client
StartupNext(h) ==
  /\ startup.pc = "loop"
  /\ upd[StartupThread].pc \in {"idle", "ret"}
  /\ h \in Remaining(startup.clientIds, Failed)
  /\ ~startup.shouldStop
  /\ startup' = [startup EXCEPT !.clientIds = startup.clientIds \ {h},
                                !.calls = Append(startup.calls, h),
                                !.failed = Failed]
  /\ upd' = [upd EXCEPT ![StartupThread] = CallFrame("update", h)]
  /\ UNCHANGED <<pcws, reg, fs, readers, remote, license, nextId, count, obs,
               conns, daemon, depot, svc, pidf,
               render, names, cfg, menu, locks>>

\* lines 140-144
StartupFinish ==
  /\ startup.pc = "loop"
  /\ upd[StartupThread].pc \in {"idle", "ret"}
  /\ Remaining(startup.clientIds, Failed) = {}
  /\ startup' = [startup EXCEPT !.pc = "done", !.failed = Failed]
  /\ upd' = [upd EXCEPT ![StartupThread] = IdleFrame]
  /\ UNCHANGED <<pcws, reg, fs, readers, remote, license, nextId, count, obs,
               conns, daemon, depot, svc, pidf,
               render, names, cfg, menu, locks>>

\* line 132-133: the task returns when its stop() was called
StartupStopped ==
  /\ startup.pc = "loop"
  /\ upd[StartupThread].pc \in {"idle", "ret"}
  /\ Remaining(startup.clientIds, Failed) # {}
  /\ startup.shouldStop
  /\ startup' = [startup EXCEPT !.pc = "done", !.failed = Failed]
  /\ upd' = [upd EXCEPT ![StartupThread] = IdleFrame]
  /\ UNCHANGED <<pcws, reg, fs, readers, remote, license, nextId, count, obs,
               conns, daemon, depot, svc, pidf,
               render, names, cfg, menu, locks>>

(* ---- the specification ---- *)

Next ==
  \/ \E c \in Conns, cmd \in {"update", "remove"}, arg \in Hosts \cup {BadHostId} :
       Accept(c, cmd, arg)
  \/ \E p \in Paths : ReaderOpen(p)
  \/ \E c \in Conns : Reply(c)
  \/ \E c \in Conns : ConnCallback(c)
  \/ \E t \in Threads : RemoveCurrentCollect(t)
  \/ \E t \in Threads : RemoveCurrentStop(t)
  \/ \E t \in Threads : CheckExisting(t)
  \/ \E t \in Threads : Construct(t)
  \/ \E t \in Threads : Register(t)
  \/ \E t \in Threads : Start(t)
  \/ \E w \in WriterIds : WriterBegin(w)
  \/ \E w \in WriterIds : WriterOpen(w)
  \/ \E w \in WriterIds : WriterUnlink(w)
  \/ \E w \in WriterIds : Callback(w)
  \/ \E w \in WriterIds : CallbackReturn(w)
  \/ StartupBegin
  \/ \E h \in Hosts : StartupNext(h)
  \/ StartupFinish

Spec == Init /\ [][Next]_vars

(* ---- the daemon from its start to its stop ---- *)

\* the command lines a client sends
DaemonLines ==
  {<<"update", "b">>, <<"remove", "b">>, <<"status">>, <<"stop">>,
   <<>>, <<"bogus">>, <<"update">>, <<"update", BadHostId>>, <<"remove", "b", "b">>,
   <<"status", "now">>}

\* Opsipxeconfd.__init__ and start(): nothing runs yet; the service has a
\* verified modules file with the uefi module and a pending action for "b"
DaemonInit ==
  /\ pcws = [w \in WriterIds |-> NoWriter]
  /\ reg = <<>>
  /\ fs = [p \in Paths |-> 0]
  /\ readers = [w \in WriterIds |-> FALSE]
  /\ remote = [h \in Hosts |-> [p \in Products |-> IF p = "n1" THEN "setup" ELSE "none"]]
  /\ license = "uefi"
  /\ upd = [t \in Threads |-> IdleFrame]
  /\ startup = [NewStartupTask EXCEPT !.pc = "none"]
  /\ nextId = 1
  /\ count = [cmds |-> 0, reads |-> 0, signals |-> 0]
  /\ obs = [w \in WriterIds |-> NoObs]
  /\ conns = <<>>
  /\ daemon = StartedDaemon
  /\ depot = DepotClients
  /\ svc = NoService
  /\ render = NotCalled
  /\ names = NotCalled
  /\ cfg = NotCalled
  /\ menu = NotCalled
  /\ locks = NotCalled
  /\ pidf = NoPidFile

DaemonNext ==
  \/ DaemonBegin
  \/ DaemonStartupTask
  \/ DaemonCreateSocket
  \/ DaemonExit
  \/ Signal
  \/ \E c \in Conns, line \in DaemonLines : Receive(c, line)
  \/ \E c \in Conns : RecvTimeout(c)
  \/ \E c \in Conns : Reply(c)
  \/ \E c \in Conns : ConnCallback(c)
  \/ \E t \in Threads : StatusCount(t)
  \/ \E t \in Threads : StatusList(t)
  \/ \E t \in Threads : StopStartupTask(t)
  \/ \E t \in Threads : StopSocket(t)
  \/ \E t \in Threads : StopFlag(t)
  \/ \E p \in Paths : ReaderOpen(p)
  \/ \E t \in Threads : RemoveCurrentCollect(t)
  \/ \E t \in Threads : RemoveCurrentStop(t)
  \/ \E t \in Threads : CheckExisting(t)
  \/ \E t \in Threads : Construct(t)
  \/ \E t \in Threads : Register(t)
  \/ \E t \in Threads : Start(t)
  \/ \E w \in WriterIds : WriterBegin(w)
  \/ \E w \in WriterIds : WriterOpen(w)
  \/ \E w \in WriterIds : WriterUnlink(w)
  \/ \E w \in WriterIds : Callback(w)
  \/ StartupBegin
  \/ \E h \in Hosts : StartupNext(h)
  \/ StartupStopped
  \/ StartupFinish

DaemonSpec == DaemonInit /\ [][DaemonNext]_vars

(* ---- the startup task with two clients on the depot ---- *)

\* both hosts are clients of the depot; "a" has a pending action, "b" has
\* two, one or none; the modules file is verified and has the uefi module
StartupInit ==
  /\ pcws = [w \in WriterIds |-> NoWriter]
  /\ reg = <<>>
  /\ fs = [p \in Paths |-> 0]
  /\ readers = [w \in WriterIds |-> FALSE]
  /\ remote \in [Hosts -> [Products -> ActionRequests]]
  /\ remote["a"]["n1"] = "setup" /\ remote["a"]["n2"] = "none"
  /\ remote["b"]["n1"] \in {"setup", "always", "none"}
  /\ remote["b"]["n2"] \in {"setup", "none"}
  /\ remote["b"]["n2"] = "setup" => remote["b"]["n1"] = "setup"
  /\ license = "uefi"
  /\ upd = [t \in Threads |-> IdleFrame]
  /\ startup = NewStartupTask
  /\ nextId = 1
  /\ count = [cmds |-> 0, reads |-> 0, signals |-> 0]
  /\ obs = [w \in WriterIds |-> NoObs]
  /\ conns = <<>>
  /\ daemon = AcceptingDaemon
  /\ depot = Hosts
  /\ svc = NoService
  /\ render = NotCalled
  /\ names = NotCalled
  /\ cfg = NotCalled
  /\ menu = NotCalled
  /\ locks = NotCalled
  /\ pidf = NoPidFile

StartupSpec == StartupInit /\ [][Next]_vars

(* ---- setup.get_service_connection ---- *)

\* line 85
max_attempts == 6

\* what service.connect() does: it returns, or raises an
\* OpsiServiceAuthenticationError, an OpsiServiceVerificationError or
\* another OpsiServiceError (connection refused, timeout, ...)
ConnectAnswers == {"ok", "auth", "verify", "transient"}

\* the answers of the service to the successive calls of connect(); one
\* more than the loop can use
ServiceScripts == [1..(max_attempts + 1) -> ConnectAnswers]

\* a variant that gives up one attempt later
AfterTransientLate(attempt) == IF attempt = max_attempts + 1 THEN "raised" ELSE "sleep"

\* lines 95-100: the last attempt raises RuntimeError, the others sleep
AfterTransient(attempt) == IF attempt = max_attempts THEN "raised" ELSE "sleep"

\* lines 86-96, one turn of the loop: service.connect() and what follows
ConnectAttempt ==
  /\ svc.pc = "connect"
  /\ LET answer == svc.script[svc.attempt] IN
     svc' = [svc EXCEPT
               !.connects = svc.connects + 1,
               !.pc = IF answer = "ok" THEN "connected"
                      ELSE IF answer \in {"auth", "verify"} THEN "raised"
                      ELSE AfterTransient(svc.attempt),
               !.result = IF answer = "ok" THEN "service"
                          ELSE IF answer \in {"auth", "verify"} THEN answer
                          ELSE IF AfterTransient(svc.attempt) = "raised" THEN "RuntimeError"
                          ELSE "none"]
  /\ UNCHANGED <<pcws, reg, fs, readers, remote, license, upd, startup, nextId, count, obs,
               conns, daemon, depot, pidf,
               render, names, cfg, menu, locks>>

\* lines 98-100 and 86: the warning, sleep(5) and the next attempt
ConnectRetry ==
  /\ svc.pc = "sleep"
  /\ svc' = [svc EXCEPT !.pc = "connect", !.attempt = svc.attempt + 1]
  /\ UNCHANGED <<pcws, reg, fs, readers, remote, license, upd, startup, nextId, count, obs,
               conns, daemon, depot, pidf,
               render, names, cfg, menu, locks>>

\* get_service_connection is called, the service answers as one of the
\* scripts says; no daemon runs
ConnectInit ==
  /\ pcws = [w \in WriterIds |-> NoWriter]
  /\ reg = <<>>
  /\ fs = [p \in Paths |-> 0]
  /\ readers = [w \in WriterIds |-> FALSE]
  /\ remote = [h \in Hosts |-> [p \in Products |-> "none"]]
  /\ license = "uefi"
  /\ upd = [t \in Threads |-> IdleFrame]
  /\ startup = [NewStartupTask EXCEPT !.pc = "none"]
  /\ nextId = 1
  /\ count = [cmds |-> 0, reads |-> 0, signals |-> 0]
  /\ obs = [w \in WriterIds |-> NoObs]
  /\ conns = <<>>
  /\ daemon = [StartedDaemon EXCEPT !.pc = "none"]
  /\ depot = {}
  /\ svc \in {[pc |-> "connect", attempt |-> 1, connects |-> 0, result |-> "none",
               script |-> script] : script \in ServiceScripts}
  /\ render = NotCalled
  /\ names = NotCalled
  /\ cfg = NotCalled
  /\ menu = NotCalled
  /\ locks = NotCalled
  /\ pidf = NoPidFile

ConnectSpec ==
  /\ ConnectInit
  /\ [][\/ ConnectAttempt
        \/ ConnectRetry]_vars

(* ---- util.temporaryPidFile ---- *)

\* process ids, as the strings pidof prints and the pid file holds
Pids == {"11", "22"}

\* the pid file before the call: none, one that cannot be read, an empty
\* one, or one with a pid
PidFiles == {"absent", "unreadable", ""} \cup Pids

\* a variant that never finds the old pid
OldPidRunningNever(oldPid, pids) == FALSE

\* lines 44-53: the old pid is compared with the pids that
\* "pidof -x opsipxeconfd" prints; without such a process execute raises,
\* the error is logged and running stays False
OldPidRunning(oldPid, pids) == oldPid # "" /\ oldPid \in pids

\* lines 69-72: os.unlink(pidFile)
AfterPidUnlink(file) == "absent"

\* lines 39-64: the old file is read (an IOError other than "no such
\* file" is raised again), a running process with the old pid makes the
\* function raise, else the file is written with the own pid
PidEnter ==
  /\ pidf.pc = "enter"
  /\ pidf' = IF pidf.file = "unreadable" THEN [pidf EXCEPT !.pc = "refused"]
             ELSE IF pidf.file # "absent" /\ OldPidRunning(pidf.file, pidf.pids)
               THEN [pidf EXCEPT !.pc = "refused"]
             ELSE [pidf EXCEPT !.pc = "held", !.file = pidf.own]
  /\ UNCHANGED <<pcws, reg, fs, readers, remote, license, upd, startup, nextId, count, obs,
               conns, daemon, depot, svc,
               render, names, cfg, menu, locks>>

\* lines 66-67: the body of the with statement runs and ends, normally or
\* with an exception
PidBody ==
  /\ pidf.pc = "held"
  /\ pidf' = [pidf EXCEPT !.pc = "leaving"]
  /\ UNCHANGED <<pcws, reg, fs, readers, remote, license, upd, startup, nextId, count, obs,
               conns, daemon, depot, svc,
               render, names, cfg, menu, locks>>

\* lines 68-77: the finally clause removes the file; the exception of the
\* body, if any, goes on to the caller
PidLeave ==
  /\ pidf.pc = "leaving"
  /\ pidf' = [pidf EXCEPT !.pc = "left", !.file = AfterPidUnlink(pidf.file)]
  /\ UNCHANGED <<pcws, reg, fs, readers, remote, license, upd, startup, nextId, count, obs,
               conns, daemon, depot, svc,
               render, names, cfg, menu, locks>>

\* temporaryPidFile is entered with some pid file, some running
\* opsipxeconfd processes, an own pid and a body that ends one way or the
\* other; before keeps the file as it was
PidInit ==
  /\ pcws = [w \in WriterIds |-> NoWriter]
  /\ reg = <<>>
  /\ fs = [p \in Paths |-> 0]
  /\ readers = [w \in WriterIds |-> FALSE]
  /\ remote = [h \in Hosts |-> [p \in Products |-> "none"]]
  /\ license = "uefi"
  /\ upd = [t \in Threads |-> IdleFrame]
  /\ startup = [NewStartupTask EXCEPT !.pc = "none"]
  /\ nextId = 1
  /\ count = [cmds |-> 0, reads |-> 0, signals |-> 0]
  /\ obs = [w \in WriterIds |-> NoObs]
  /\ conns = <<>>
  /\ daemon = [StartedDaemon EXCEPT !.pc = "none"]
  /\ depot = {}
  /\ svc = NoService
  /\ render = NotCalled
  /\ names = NotCalled
  /\ cfg = NotCalled
  /\ menu = NotCalled
  /\ locks = NotCalled
  /\ pidf \in {[pc |-> "enter", file |-> file, before |-> file, pids |-> pids, own |-> own,
                body |-> body] :
                file \in PidFiles, pids \in SUBSET Pids, own \in Pids,
                body \in {"returns", "raises"}}

PidSpec ==
  /\ PidInit
  /\ [][\/ PidEnter
        \/ PidBody
        \/ PidLeave]_vars

(* ---- PXEConfigWriter.__init__ with its content ---- *)

\* a template line is a sequence of items: blanks and words; a word is a
\* directive, a bare parameter <<key>> or a parameter <<key, value>>
Blank == <<" ">>
EliloOpen == <<"append=\"">>
EliloClose == <<"\"">>

\* the value None of a key of the append map
None == "<None>"

\* str.split(): the words of a line
Words(line) == SelectSeq(line, LAMBDA item : item # Blank)

\* line.lstrip().startswith(...): the directive of a line
Directive(line) == IF Words(line) = <<>> THEN <<"">> ELSE Head(Words(line))

\* line 207: ''.join(line.split('="')[1:])[:-1].split(), the words between
\* the quotes; line 210 and 231: line.lstrip().split()[1:]
LineProperties(line) ==
  IF Directive(line) = EliloOpen
  THEN SubSeq(Words(line), 2, Len(Words(line)) - 1)
  ELSE Tail(Words(line))

\* a variant that writes key=value for every key
AppendPropertyAlways(pair) == pair

\* lines 213-216 and 233-236: "key=value" for a value that is true, else
\* the key alone
AppendProperty(pair) == IF pair[2] \notin {None, ""} THEN pair ELSE <<pair[1]>>

\* lines 212-216: the line's properties and then one for each key of
\* self.append, in the order of the dict
AppendLineProperties(line, append) ==
  LineProperties(line) \o [i \in 1..Len(append) |-> AppendProperty(append[i])]

\* lines 196-242, the loop over the template lines: st has the flags of the
\* writer, the content so far and whether the exception was raised
RECURSIVE PXEConfigContent(_, _, _, _)
PXEConfigContent(lines, append, uefiModule, st) ==
  IF lines = <<>> \/ st.raised THEN st
  ELSE LET line == Head(lines)
           props == AppendLineProperties(line, append) IN
       IF Directive(line) = EliloOpen THEN
         PXEConfigContent(Tail(lines), append, uefiModule,
           IF uefiModule
           THEN [st EXCEPT !.uefi = TRUE,
                           !.content = Append(st.content, [form |-> "append=", words |-> props])]
           ELSE [st EXCEPT !.uefi = TRUE, !.raised = TRUE])
       ELSE IF Directive(line) = <<"append">> THEN
         PXEConfigContent(Tail(lines), append, uefiModule,
           [st EXCEPT !.uefi = FALSE,
                      !.content = Append(st.content, [form |-> "append", words |-> props])])
       ELSE IF Directive(line) = <<"linux">> THEN
         IF ~uefiModule /\ st.uefi THEN [st EXCEPT !.raised = TRUE]
         ELSE PXEConfigContent(Tail(lines), append, uefiModule,
                [st EXCEPT !.uefi = TRUE, !.usingGrub = TRUE,
                           !.content = Append(st.content, [form |-> "linux", words |-> props])])
       ELSE PXEConfigContent(Tail(lines), append, uefiModule,
              [st EXCEPT !.content = Append(st.content, [form |-> "line", words |-> line])])

\* lines 89-151: a modules file whose signature does not verify makes the
\* constructor return; a verified one sets self._uefiModule
RenderModules ==
  /\ render.pc = "modules"
  /\ render' = IF render.verified THEN [render EXCEPT !.pc = "content"]
               ELSE [render EXCEPT !.pc = "returned", !.uefiModule = FALSE]
  /\ UNCHANGED <<pcws, reg, fs, readers, remote, license, upd, startup, nextId, count, obs,
               conns, daemon, depot, svc, pidf, names, cfg, menu, locks>>

\* lines 156-162: self.content = self._getPXEConfigContent(self.templatefile)
RenderContent ==
  /\ render.pc = "content"
  /\ LET st == PXEConfigContent(render.template, render.append, render.uefiModule,
                                [uefi |-> FALSE, usingGrub |-> FALSE, raised |-> FALSE,
                                 content |-> <<>>]) IN
     render' = IF st.raised THEN [render EXCEPT !.pc = "raised"]
               ELSE [render EXCEPT !.pc = "fifo", !.content = st.content,
                                   !.uefi = st.uefi, !.usingGrub = st.usingGrub]
  /\ UNCHANGED <<pcws, reg, fs, readers, remote, license, upd, startup, nextId, count, obs,
               conns, daemon, depot, svc, pidf, names, cfg, menu, locks>>

\* lines 164-172: del self.append['pckey'] (a KeyError is passed over) and
\* the fifo is made
RenderFifo ==
  /\ render.pc = "fifo"
  /\ render' = [render EXCEPT !.pc = "constructed", !.file = TRUE,
                  !.append = SelectSeq(render.append, LAMBDA pair : pair[1] # "pckey")]
  /\ UNCHANGED <<pcws, reg, fs, readers, remote, license, upd, startup, nextId, count, obs,
               conns, daemon, depot, svc, pidf, names, cfg, menu, locks>>

\* opsipxeconfd.py lines 290-296: the line of Opsipxeconfd.status for the
\* writer, which prints pcw.append as it is then; a writer is in the list
\* when its constructor has returned, early or not (lines 446-448)
RenderStatus ==
  /\ render.pc \in {"returned", "constructed"}
  /\ ~render.status.set
  /\ render' = [render EXCEPT !.status = [set |-> TRUE, configuration |-> render.append]]
  /\ UNCHANGED <<pcws, reg, fs, readers, remote, license, upd, startup, nextId, count, obs,
               conns, daemon, depot, svc, pidf, names, cfg, menu, locks>>

\* the constructor is called with a template, an append map and the
\* modules of the service; no daemon runs. The templates are the default
\* one, an elilo one and grub ones; the append maps are those of
\* updateBootConfiguration, lines 402-419: the key of the host, its name,
\* the product (None in the tests) and the parameters of the bootimage,
\* with or without an escaped password hash
RenderInit ==
  /\ pcws = [w \in WriterIds |-> NoWriter]
  /\ reg = <<>>
  /\ fs = [p \in Paths |-> 0]
  /\ readers = [w \in WriterIds |-> FALSE]
  /\ remote = [h \in Hosts |-> [p \in Products |-> "none"]]
  /\ license = "uefi"
  /\ upd = [t \in Threads |-> IdleFrame]
  /\ startup = [NewStartupTask EXCEPT !.pc = "none"]
  /\ nextId = 1
  /\ count = [cmds |-> 0, reads |-> 0, signals |-> 0]
  /\ obs = [w \in WriterIds |-> NoObs]
  /\ conns = <<>>
  /\ daemon = [StartedDaemon EXCEPT !.pc = "none"]
  /\ depot = {}
  /\ svc = NoService
  /\ pidf = NoPidFile
  /\ LET RenderTemplates ==
           {<<<<<<"label">>, Blank, <<"install">>>>,
              <<Blank, Blank, <<"append">>, Blank, <<"initrd", "miniroot">>, Blank, Blank,
                <<"quiet">>>>>>,
            <<<<EliloOpen, <<"initrd", "miniroot">>, Blank, <<"quiet">>, EliloClose>>>>,
            <<<<<<"linux">>, Blank, <<"(pxe)/install">>, Blank, <<"initrd", "miniroot">>>>,
              <<<<"initrd">>, Blank, <<"(pxe)/miniroot">>>>>>,
            <<<<<<"linux">>, Blank, <<"(pxe)/install">>>>,
              <<Blank, <<"linux">>, Blank, <<"(pxe)/rescue">>, Blank, <<"quiet">>>>>>}
         RenderAppends ==
           {<<<<"pckey", pckey>>, <<"hn", "client">>, <<"product", product>>>> \o more :
              pckey \in {"123", None}, product \in {"winpe", None},
              more \in {<<>>, <<<<"pwh", "\\$6\\$salt">>, <<"lang", "de">>>>,
                        <<<<"acpi", "">>>>}}
     IN render \in
          {[pc |-> "modules", template |-> template, append |-> append,
            given |-> append, verified |-> verified, uefiModule |-> uefiModule,
            content |-> <<>>, uefi |-> FALSE, usingGrub |-> FALSE, file |-> FALSE,
            status |-> [set |-> FALSE, configuration |-> <<>>]] :
            template \in RenderTemplates, append \in RenderAppends,
            verified \in BOOLEAN, uefiModule \in BOOLEAN}
  /\ names = NotCalled
  /\ cfg = NotCalled
  /\ menu = NotCalled
  /\ locks = NotCalled

RenderSpec ==
  /\ RenderInit
  /\ [][\/ RenderModules
        \/ RenderContent
        \/ RenderFifo
        \/ RenderStatus]_vars

TypeOK ==
  /\ nextId \in 1..(MaxWriters + 1)
  /\ count.cmds \in 0..MaxCmds
  /\ count.reads \in 0..MaxReads
  /\ count.signals \in 0..MaxSignals
  /\ \A i \in 1..Len(conns) : conns[i] \in Conns
  /\ \A i \in 1..Len(reg) : reg[i] \in WriterIds

(* ---- properties ---- *)

\* the file at the path of writer w, 0 for no file and for no writer
FileOf(w) == IF Created(w) THEN fs[PxeFile(pcws[w].host)] ELSE 0

\* w was appended to the writer list and is no longer in it
LeftRegistry(w) == obs[w].registered /\ ~InList(reg, w)

\* the writer is registered, its thread was started, it has not piped its
\* content and stop() was not called on it
Active(w) ==
  /\ InList(reg, w)
  /\ pcws[w].pc \in {"started", "loop"}
  /\ ~pcws[w].pipeOpened
  /\ ~obs[w].stopCalled

\* the thread t leaves the step named pc of its updateBootConfiguration call
Leaves(t, pc) == upd[t].pc = pc /\ upd'[t] # upd[t]

\* C1 (Exclusivity): at every moment the writer list holds at most one
\* writer per host, whatever the interleaving of update commands, the
\* startup task and callbacks.
C1_Exclusivity ==
  \A i, j \in 1..Len(reg) : pcws[reg[i]].host = pcws[reg[j]].host => i = j

\* the latest writer created for host h before the next one
PreviousWriters(h) ==
  {v \in WriterIds : /\ Created(v) /\ pcws[v].host = h
                     /\ \A u \in WriterIds : Created(u) /\ pcws[u].host = h => u <= v}

\* C2 (Per-host serialization): a writer for host h is constructed only
\* when the thread of the previous writer for h has ended.
C2_Serialization ==
  [][\A t \in Threads :
       Leaves(t, "ctor") /\ nextId' # nextId
         => \A v \in PreviousWriters(upd[t].host) : Terminated(v)]_vars

\* C3 (No leak), in the form a finite run refutes: a writer that has left
\* the writer list and whose thread has ended (so nothing of it is left to
\* act) has no file at its path any more.
C3_NoLeak ==
  \A w \in WriterIds : LeftRegistry(w) /\ Terminated(w) => FileOf(w) # w

\* C4 (File presence): while a writer is registered and ACTIVE, the fifo it
\* created is the file at its path: no thread has removed or replaced it.
C4_FilePresence ==
  \A w \in WriterIds : Active(w) => FileOf(w) = w

\* C5 (Path disjointness): two registered writers of different hosts have
\* different pxe file paths.
C5_PathDisjoint ==
  \A i, j \in 1..Len(reg) :
    pcws[reg[i]].host # pcws[reg[j]].host
      => PxeFile(pcws[reg[i]].host) # PxeFile(pcws[reg[j]].host)

\* a writer of another host is registered for the path of host h
Collision(h) ==
  \E i \in 1..Len(reg) :
    pcws[reg[i]].host # h /\ PxeFile(pcws[reg[i]].host) = PxeFile(h)

\* C6 (Cross-host collision): an update of host h with pending product
\* actions, whose path is the path of a registered writer of another host,
\* ends with the error reply, creates no writer and leaves the writer list
\* and the file as they are.
C6_Collision ==
  [][\A t \in Threads :
       /\ Leaves(t, "check")
       /\ productOnClient_getObjects(upd[t].host) # <<>>
       /\ Collision(upd[t].host)
       => /\ upd'[t].pc = "ret" /\ upd'[t].res = "error"
          /\ reg' = reg /\ fs' = fs]_vars

\* the callback of writer w is invoked in this step
Fires(w) == obs'[w].callbacks # obs[w].callbacks

\* C7 as stated (Callback at most once): the callback of a writer is invoked
\* at most once, only after its file was read, and while the writer is still
\* in the writer list.
C7_CallbackRegistered ==
  [][\A w \in WriterIds :
       Fires(w) => obs[w].callbacks = 0 /\ pcws[w].pipeOpened /\ InList(reg, w)]_vars

\* C7 as the code has it: the callback of a writer is invoked at most once
\* and only after the writer piped its content to a reader; it takes the
\* writer out of the writer list if it is still there (a writer replaced or
\* removed after its pipe was opened fires it too).
C7_CallbackOnce ==
  [][\A w \in WriterIds :
       Fires(w) => /\ obs[w].callbacks = 0 /\ obs'[w].callbacks = 1
                   /\ pcws[w].pipeOpened
                   /\ ~InList(reg', w)]_vars

\* a writer that had been taken out of the list by an update or a remove
\* has fired its callback
C7_Witness ==
  \E w \in WriterIds : obs[w].callbacks = 1 /\ obs[w].stopCalled /\ pcws[w].pipeOpened

\* a step of the thread of writer w
WriterStep(w) ==
  WriterBegin(w) \/ WriterOpen(w) \/ WriterUnlink(w) \/ Callback(w) \/ CallbackReturn(w)

\* the writer threads are scheduled: a thread that can take its next step
\* takes it (the calls of the callback to the service return)
LiveSpec == Init /\ [][Next]_vars /\ \A w \in WriterIds : WF_vars(WriterStep(w))

RemoveReturned(c) ==
  upd[c].op = "remove" /\ upd[c].pc = "ret" /\ forceHostId(upd[c].host)

StatusStep(c) ==
  /\ upd[c].op = "status"
  /\ upd[c].pc \notin {"idle", "ret", "cb"}
  /\ upd'[c] # upd[c]

\* C11: a status command is read-only: no step of it changes the writer
\* registry, the connection registry, a writer's state, a pxe file or the
\* state of a product action request on the service.
C11_StatusReadOnly ==
  [][\A c \in Conns : StatusStep(c) => UNCHANGED <<reg, conns, pcws, fs, remote>>]_vars

\* a status command has returned its text while a writer was registered
C11_Witness ==
  \E c \in Conns : upd[c].pc = "ret" /\ upd[c].res = "status" /\ upd[c].m > 0 /\ upd[c].n > 0

\* C12: the status text reports M writers and lists exactly those M writers,
\* also when writers are added or removed while status runs.
C12_Snapshot ==
  \A c \in Conns :
    upd[c].pc = "ret" /\ upd[c].res = "status" => upd[c].m = Len(upd[c].listed)

\* a received command line that is not `stop`, `status`, `update <host_id>`
\* or `remove <host_id>` with a valid host id
Malformed(f) ==
  \/ f.op \notin {"stop", "status", "update", "remove"}
  \/ f.op \in {"stop", "status"} /\ f.argc # 0
  \/ f.op \in {"update", "remove"} /\ f.argc # 1
  \/ f.op \in {"update", "remove"} /\ ~forceHostId(f.host)

\* connection c has received a malformed command line in this transition
ReceivedMalformed(c) ==
  /\ upd[c].pc = "idle"
  /\ upd'[c].pc \notin {"idle", "cb"}
  /\ Malformed(upd'[c])

\* C13: an unknown command, a command with missing or surplus arguments, an
\* empty command or an update/remove with an invalid host id goes straight
\* to an (ERROR) reply and changes no state.
C13_MalformedIsError ==
  [][\A c \in Conns :
       ReceivedMalformed(c) =>
         /\ upd'[c].pc = "ret"
         /\ upd'[c].res = "error"
         /\ UNCHANGED <<pcws, reg, fs, remote, daemon, startup>>]_vars

\* C14: one command, one reply: the handler of a received command ends
\* with a text (an update that does not raise with "Boot configuration
\* updated", also when a writer for the host's path is registered), and
\* that text is sent before the connection is closed.
C14_OneReply ==
  \A c \in Conns :
    /\ upd[c].pc = "ret" /\ upd[c].op = "update" => upd[c].res \in {"updated", "error"}
    /\ upd[c].pc = "cb" => upd[c].res # "nothing"

\* C15: a control connection is in the connection registry from its accept
\* to its completion callback, whatever the handler did (reply sent, send
\* failed, receive timed out, handler raised), and the registry holds no
\* connection whose thread has ended.
C15_ConnectionRegistered ==
  \A c \in Conns : upd[c].pc # "idle" <=> InList(conns, c)

\* the second connection of the run is at its completion callback after a
\* failed send, and the first one is no longer in the registry
C15_Witness ==
  \E c \in Conns :
    /\ upd[c].pc = "cb"
    /\ upd[c].res = "nothing"
    /\ count.cmds = 2
    /\ conns = <<c>>

(* ---- shutdown ---- *)

\* C16: shutdown drains the writers: when Opsipxeconfd.stop has run, stop()
\* was called on every writer in the registry.
C16_ShutdownDrains ==
  [][daemon'.stops > daemon.stops => \A i \in 1..Len(reg) : obs'[reg[i]].stopCalled]_vars

\* C17: after a stop command or a SIGTERM / SIGINT has been processed the
\* daemon is not running and its listening socket is not open, at whatever
\* moment after the start of the daemon thread the request arrived.
C17_StopNeverLost ==
  daemon.stops > 0 => ~daemon.running /\ daemon.socket # "open"

(* ---- the startup task ---- *)

\* how often the startup task called updateBootConfiguration for client h
CallsFor(h) == Cardinality({i \in 1..Len(startup.calls) : startup.calls[i] = h})

\* C18: the startup task that ran to its end has called the update exactly
\* once for each client of the depot that had a pending netboot action and
\* for no other client, also when the update of one of them raised.
C18_StartupOnce ==
  startup.pc = "done" /\ ~startup.shouldStop =>
    /\ startup.pending \subseteq depot
    /\ \A h \in Hosts : CallsFor(h) = IF h \in startup.pending THEN 1 ELSE 0

\* the task has ended, the update of the first of its two clients raised
\* and the second one was processed all the same
C18_Witness ==
  /\ startup.pc = "done"
  /\ Len(startup.calls) = 2
  /\ startup.calls[1] \in startup.failed
  /\ startup.calls[2] \notin startup.failed

(* ---- the service connection ---- *)

\* the number of the first of the first n answers that is not a transient
\* error, n if there is none
RECURSIVE FirstFinal(_, _, _)
FirstFinal(script, i, n) ==
  IF i >= n \/ script[i] # "transient" THEN i ELSE FirstFinal(script, i + 1, n)

\* get_service_connection has ended after at most n calls of connect(): it
\* called connect() until the first answer that was not a transient error
\* and not more than n times, it returned the service when that answer was
\* a success, raised the authentication or verification error when it was
\* one, and raised RuntimeError when the n-th answer was a transient error
RetriesUpTo(n) ==
  svc.pc \in {"connected", "raised"} =>
    LET last == FirstFinal(svc.script, 1, n) IN
    /\ svc.connects = last
    /\ svc.result = IF svc.script[last] = "ok" THEN "service"
                    ELSE IF svc.script[last] = "transient" THEN "RuntimeError"
                    ELSE svc.script[last]

\* C19 as the code has it: the service connect retries on transient errors
\* up to 6 attempts and then fails; on an authentication or certificate
\* verification error it fails at once, without another attempt.
C19_RetriesSix == RetriesUpTo(max_attempts)

\* C19 as stated: the service connect retries on transient errors up to 3
\* attempts and then fails; authentication and verification errors fail at
\* once.
C19_RetriesThree == RetriesUpTo(3)

\* six transient errors in a row: the sixth call raised RuntimeError
C19_Witness ==
  /\ svc.pc = "raised"
  /\ svc.result = "RuntimeError"
  /\ svc.connects = 6

(* ---- the pid file ---- *)

HasKey(words, k) == \E i \in 1..Len(words) : words[i][1] = k

\* C21: the pckey is removed from the append map before rendering: of a
\* writer that was constructed neither the content nor the stored append
\* map has the pckey.
C21_NoPckey ==
  render.pc \in {"returned", "constructed"} =>
    /\ \A i \in 1..Len(render.content) : ~HasKey(render.content[i].words, "pckey")
    /\ ~HasKey(render.append, "pckey")

\* C22: each append / linux line of the content keeps the parameters of its
\* template line, in their order, and has for every key of the append map
\* key=value when the value is not empty and the bare key when it is empty
\* or None; the escaped pwh value is written as it was given.
C22_DirectiveLines ==
  render.pc \in {"fifo", "constructed"} =>
    \A i \in 1..Len(render.template) :
      LET line == render.template[i]
          out == render.content[i].words
          given == SelectSeq(line, LAMBDA item :
                     item \notin {Blank, EliloOpen, EliloClose, <<"append">>, <<"linux">>}) IN
      Directive(line) \in {EliloOpen, <<"append">>, <<"linux">>} =>
        /\ SubSeq(out, 1, Len(given)) = given
        /\ \A j \in 1..Len(render.append) :
             LET key == render.append[j][1]
                 value == render.append[j][2] IN
             IF value \in {None, ""}
             THEN <<key>> \in {out[n] : n \in 1..Len(out)} /\ <<key, value>> \notin {out[n] : n \in 1..Len(out)}
             ELSE <<key, value>> \in {out[n] : n \in 1..Len(out)}

\* a writer was constructed for the default template with a product of
\* None and an escaped pwh in its append map
C22_Witness ==
  /\ render.pc = "constructed"
  /\ Directive(render.template[2]) = <<"append">>
  /\ <<"product", None>> \in {render.append[j] : j \in 1..Len(render.append)}
  /\ <<"pwh", "\\$6\\$salt">> \in {render.append[j] : j \in 1..Len(render.append)}

(* ---- the uefi licence ---- *)

\* C23: no writer exists for a template with an `append=` or a `linux`
\* line when the uefi module is not licensed: its construction fails before
\* a file is made and before it is registered.
C23_UefiUnlicensed ==
  \A w \in WriterIds :
    LET lines == TemplateLines(pcws[w].templatefile)
        requiresUefi == \E i \in 1..Len(lines) : lines[i] \in {"append=", "linux"}
    IN Created(w) => ~(requiresUefi /\ ~pcws[w].uefiModule)

(* ---- updateBootConfiguration for one host object: the pxe file ---- *)

\* the host objects of the service: a hardware address as its octets and
\* colons, an ip address as its four numbers, both empty when unset, and a
\* system uuid
HostObjects ==
  [hardwareAddress : {<<>>, <<"00", ":", "11", ":", "22">>, <<"aa", ":", "bb", ":", "cc">>},
   ipAddress : {<<>>, <<10, 0, 0, 1>>, <<192, 168, 1, 20>>},
   systemUuid : {"", "9f3c-uuid"}]

\* str.replace(old, new) on a string given by its pieces
Replace(str, old, new) == [i \in DOMAIN str |-> IF str[i] = old THEN new ELSE str[i]]

\* _getNameForPXEConfigFile(host): "01-" and the hardware address with
\* dashes, else the ip address with '%02X' for each number, else it raises
\* (no name)
_getNameForPXEConfigFile(host) ==
  LET HexDigits == <<"0", "1", "2", "3", "4", "5", "6", "7",
                     "8", "9", "A", "B", "C", "D", "E", "F">>
      Hex02X(n) == <<HexDigits[(n \div 16) + 1], HexDigits[(n % 16) + 1]>>
  IN IF host.hardwareAddress # <<>>
     THEN <<"01-">> \o Replace(host.hardwareAddress, ":", "-")
     ELSE IF host.ipAddress # <<>>
     THEN Hex02X(host.ipAddress[1]) \o Hex02X(host.ipAddress[2])
          \o Hex02X(host.ipAddress[3]) \o Hex02X(host.ipAddress[4])
     ELSE <<>>

\* lines 311-327: without a product with an action request the update returns
NameProducts ==
  /\ names.pc = "products"
  /\ names' = IF names.productOnClients
              THEN [names EXCEPT !.pc = "host"]
              ELSE [names EXCEPT !.pc = "ret", !.result = "Boot configuration updated"]
  /\ UNCHANGED <<pcws, reg, fs, readers, remote, license, upd, startup, nextId, count, obs,
               conns, daemon, depot, svc, pidf, render, cfg, menu, locks>>

\* lines 329-332 with _getHostObject: host_getObjects(id=hostId)[0], and a
\* ValueError when the service has no such object; _processCommand answers
\* a call that raised with ERROR_MARKER
NameHost ==
  /\ names.pc = "host"
  /\ names' = IF names.hostObjects = <<>>
              THEN [names EXCEPT !.pc = "ret", !.result = "(ERROR)"]
              ELSE [names EXCEPT !.pc = "name", !.host = names.hostObjects[1]]
  /\ UNCHANGED <<pcws, reg, fs, readers, remote, license, upd, startup, nextId, count, obs,
               conns, daemon, depot, svc, pidf, render, cfg, menu, locks>>

\* lines 379-381: pxefile = os.path.join(self.config['pxeDir'], pxeConfigName)
NameFile ==
  /\ names.pc = "name"
  /\ names' = IF _getNameForPXEConfigFile(names.host) = <<>>
              THEN [names EXCEPT !.pc = "ret", !.result = "(ERROR)"]
              ELSE [names EXCEPT !.pc = "construct",
                      !.pxefile = <<Config.pxeDir, _getNameForPXEConfigFile(names.host)>>]
  /\ UNCHANGED <<pcws, reg, fs, readers, remote, license, upd, startup, nextId, count, obs,
               conns, daemon, depot, svc, pidf, render, cfg, menu, locks>>

\* lines 446-451: the writer is constructed with the one pxefile, which its
\* constructor makes, is appended to the list and started
NameConstruct ==
  /\ names.pc = "construct"
  /\ names' = [names EXCEPT !.pc = "ret", !.result = "Boot configuration updated",
                            !.files = names.files \cup {names.pxefile},
                            !.writers = Append(names.writers, names.pxefile)]
  /\ UNCHANGED <<pcws, reg, fs, readers, remote, license, upd, startup, nextId, count, obs,
               conns, daemon, depot, svc, pidf, render, cfg, menu, locks>>

\* PXEConfigWriter.run, lines 270-271: the writer ends and unlinks its pxefile
NameWriterEnd ==
  /\ names.pc = "ret"
  /\ names.writers # <<>>
  /\ names' = [names EXCEPT !.pc = "ended", !.files = names.files \ {names.writers[1]}]
  /\ UNCHANGED <<pcws, reg, fs, readers, remote, license, upd, startup, nextId, count, obs,
               conns, daemon, depot, svc, pidf, render, cfg, menu, locks>>

\* update is called for a host id; the service has its host object or has
\* none, and has products with an action request for it or has none
NameInit ==
  /\ pcws = [w \in WriterIds |-> NoWriter]
  /\ reg = <<>>
  /\ fs = [p \in Paths |-> 0]
  /\ readers = [w \in WriterIds |-> FALSE]
  /\ remote = [h \in Hosts |-> [p \in Products |-> "none"]]
  /\ license = "uefi"
  /\ upd = [t \in Threads |-> IdleFrame]
  /\ startup = [NewStartupTask EXCEPT !.pc = "none"]
  /\ nextId = 1
  /\ count = [cmds |-> 0, reads |-> 0, signals |-> 0]
  /\ obs = [w \in WriterIds |-> NoObs]
  /\ conns = <<>>
  /\ daemon = [StartedDaemon EXCEPT !.pc = "none"]
  /\ depot = {}
  /\ svc = NoService
  /\ pidf = NoPidFile
  /\ render = NotCalled
  /\ names \in {[pc |-> "products", hostObjects |-> hostObjects,
                 productOnClients |-> productOnClients,
                 host |-> [hardwareAddress |-> <<>>, ipAddress |-> <<>>, systemUuid |-> ""],
                 result |-> "", pxefile |-> <<>>, files |-> {}, writers |-> <<>>] :
                 hostObjects \in {<<>>} \cup {<<host>> : host \in HostObjects},
                 productOnClients \in BOOLEAN}
  /\ cfg = NotCalled
  /\ menu = NotCalled
  /\ locks = NotCalled

NameSpec ==
  /\ NameInit
  /\ [][\/ NameProducts
        \/ NameHost
        \/ NameFile
        \/ NameConstruct
        \/ NameWriterEnd]_vars

\* C24: after an update that made a writer, the PXE directory has a file
\* named by the system uuid of the host when that is set and a file named
\* "01-" and the hardware address with dashes when that is set, and has no
\* other file; when the writer has ended the directory has none of them.
C24_FileNames ==
  names.pc \in {"ret", "ended"} /\ names.writers # <<>> =>
    LET uuidNames == IF names.host.systemUuid # ""
                     THEN {<<Config.pxeDir, <<names.host.systemUuid>>>>} ELSE {}
        macNames == IF names.host.hardwareAddress # <<>>
                    THEN {<<Config.pxeDir,
                            <<"01-">> \o Replace(names.host.hardwareAddress, ":", "-")>>}
                    ELSE {}
    IN names.files = IF names.pc = "ret" THEN uuidNames \cup macNames ELSE {}

\* C25: an update for a host with a product to boot, whose host object has
\* no system uuid and no hardware address, is answered with an error and
\* makes no file and no writer, whatever ip address the host has.
C25_NoAddressFails ==
  /\ names.pc = "ret"
  /\ names.productOnClients
  /\ names.hostObjects # <<>>
  /\ names.hostObjects[1].systemUuid = ""
  /\ names.hostObjects[1].hardwareAddress = <<>>
  => names.result = "(ERROR)" /\ names.files = {} /\ names.writers = <<>>

\* C26: an update for a host id without a host object in the service is
\* answered with "Boot configuration updated" and makes no writer, with
\* and without products with an action request for the id.
C26_NotFoundIsSuccess ==
  names.pc = "ret" /\ names.hostObjects = <<>> =>
    names.result = "Boot configuration updated" /\ names.writers = <<>>

(* ---- Opsipxeconfd.config: an update and a reload ---- *)

\* line 334: depotId = self.config['depotId'], the first value the update
\* reads; `first` keeps the config the update met there
ReadDepotId ==
  /\ cfg.pc = "depotId"
  /\ cfg' = [cfg EXCEPT !.pc = "template", !.first = cfg.config,
                        !.read.depotId = cfg.config.depotId]
  /\ UNCHANGED <<pcws, reg, fs, readers, remote, license, upd, startup, nextId, count, obs,
               conns, daemon, depot, svc, pidf, render, names, menu, locks>>

\* line 376 with _getPxeConfigTemplate, line 568: self.config['pxeConfTemplate']
ReadTemplate ==
  /\ cfg.pc = "template"
  /\ cfg' = [cfg EXCEPT !.pc = "pxeDir", !.read.pxeConfTemplate = cfg.config.pxeConfTemplate]
  /\ UNCHANGED <<pcws, reg, fs, readers, remote, license, upd, startup, nextId, count, obs,
               conns, daemon, depot, svc, pidf, render, names, menu, locks>>

\* line 381: pxefile = os.path.join(self.config['pxeDir'], pxeConfigName)
ReadPxeDir ==
  /\ cfg.pc = "pxeDir"
  /\ cfg' = [cfg EXCEPT !.pc = "done", !.read.pxeDir = cfg.config.pxeDir]
  /\ UNCHANGED <<pcws, reg, fs, readers, remote, license, upd, startup, nextId, count, obs,
               conns, daemon, depot, svc, pidf, render, names, menu, locks>>

\* SIGHUP in the main thread: the handler builds a new config, setConfig
\* assigns it to self.config without a lock, reload() makes the backend
\* instance and the socket anew
Reload ==
  /\ cfg.pc # "none"
  /\ cfg' = [cfg EXCEPT !.config = cfg.file, !.backend = "reloaded", !.socket = "reloaded"]
  /\ UNCHANGED <<pcws, reg, fs, readers, remote, license, upd, startup, nextId, count, obs,
               conns, daemon, depot, svc, pidf, render, names, menu, locks>>

\* an update has passed the product check and is about to read the config
\* that the daemon started with; the configuration file and the command
\* line may give another one at a reload
ReloadInit ==
  /\ pcws = [w \in WriterIds |-> NoWriter]
  /\ reg = <<>>
  /\ fs = [p \in Paths |-> 0]
  /\ readers = [w \in WriterIds |-> FALSE]
  /\ remote = [h \in Hosts |-> [p \in Products |-> "none"]]
  /\ license = "uefi"
  /\ upd = [t \in Threads |-> IdleFrame]
  /\ startup = [NewStartupTask EXCEPT !.pc = "none"]
  /\ nextId = 1
  /\ count = [cmds |-> 0, reads |-> 0, signals |-> 0]
  /\ obs = [w \in WriterIds |-> NoObs]
  /\ conns = <<>>
  /\ daemon = [StartedDaemon EXCEPT !.pc = "none"]
  /\ depot = {}
  /\ svc = NoService
  /\ pidf = NoPidFile
  /\ render = NotCalled
  /\ names = NotCalled
  /\ LET StartConfig == [depotId |-> "depot.one", pxeDir |-> "/tftpboot/linux/pxelinux.cfg",
                         pxeConfTemplate |-> "/tftpboot/linux/pxelinux.cfg/install"]
         ReloadConfigs ==
           [depotId : {"depot.one", "depot.two"},
            pxeDir : {"/tftpboot/linux/pxelinux.cfg", "/tftpboot/opsi", "/srv/tftp"},
            pxeConfTemplate : {"/tftpboot/linux/pxelinux.cfg/install",
                               "/tftpboot/opsi/install", "/srv/tftp/install"}]
     IN cfg \in {[pc |-> "depotId", config |-> StartConfig, file |-> file,
                  first |-> StartConfig,
                  read |-> [depotId |-> "", pxeDir |-> "", pxeConfTemplate |-> ""],
                  backend |-> "initial", socket |-> "initial"] : file \in ReloadConfigs}
  /\ menu = NotCalled
  /\ locks = NotCalled

ReloadSpec ==
  /\ ReloadInit
  /\ [][\/ ReadDepotId
        \/ ReadTemplate
        \/ ReadPxeDir
        \/ Reload]_vars

\* C27: the depot id, the template and the PXE directory that an update
\* has used are those of one configuration of the daemon, the one before
\* or the one after a reload that came in between, never some of each.
C27_OneSnapshot ==
  cfg.pc = "done" => cfg.read \in {cfg.first, cfg.file}

(* ---- setup.patchMenuFile: the grub menu files ---- *)

MaxPatches == 2      \* runs of patchMenuFile on the same PXE directory

\* strings are given by their pieces; a token of a menu line is a key with
\* its value, NoValue for a token without "="
NoValue == <<None>>

\* str.replace("$", r"\$")
RECURSIVE Escape(_)
Escape(str) ==
  IF str = <<>> THEN <<>>
  ELSE (IF Head(str) = "$" THEN <<"\\", "$">> ELSE <<Head(str)>>) \o Escape(Tail(str))

\* element.split("=")[1] of a token "key=value": the value up to its first "="
RECURSIVE UpToEquals(_)
UpToEquals(value) ==
  IF value = <<>> \/ Head(value) = "=" THEN <<>>
  ELSE <<Head(value)>> \o UpToEquals(Tail(value))

\* a dict keeps the order in which its keys were set
DictHas(d, key) == \E i \in 1..Len(d) : d[i][1] = key
DictSet(d, key, value) ==
  IF DictHas(d, key) THEN [i \in 1..Len(d) |-> IF d[i][1] = key THEN <<key, value>> ELSE d[i]]
  ELSE Append(d, <<key, value>>)
DictPop(d, key) == SelectSeq(d, LAMBDA item : item[1] # key)

\* lines 146-158: the loop over defaultAppendParams; encode_password gives
\* a crypt hash of the clear password; the escaping is inside the loop, so
\* it is applied again for each later element
RECURSIVE AppendEntries(_, _)
AppendEntries(params, st) ==
  IF params = <<>> THEN st
  ELSE LET element == Head(params)
           pwh1 == IF element.key = "bootimageRootPassword"
                   THEN [set |-> TRUE, value |-> <<"$", "6", "$">> \o element.value]
                   ELSE st.pwhEntry
           pwh2 == IF element.key = "pwh" THEN [set |-> TRUE, value |-> element.value]
                   ELSE pwh1
           pwh3 == IF pwh2.set THEN [pwh2 EXCEPT !.value = Escape(pwh2.value)] ELSE pwh2
           lang == IF element.key = "lang" THEN [set |-> TRUE, value |-> element.value]
                   ELSE st.langEntry
       IN AppendEntries(Tail(params), [pwhEntry |-> pwh3, langEntry |-> lang])

\* lines 169-173 and 181-185: the dict of the tokens of a line
RECURSIVE LineDict(_, _)
LineDict(tokens, d) ==
  IF tokens = <<>> THEN d
  ELSE LET t == Head(tokens) IN
       LineDict(Tail(tokens),
                DictSet(d, t[1], IF t[2] = NoValue THEN NoValue ELSE UpToEquals(t[2])))

\* lines 202-204: the keys of the line that the default dict has not
RECURSIVE AddMissing(_, _, _)
AddMissing(new, appendDict, default) ==
  IF appendDict = <<>> THEN new
  ELSE AddMissing(IF DictHas(default, Head(appendDict)[1]) THEN new
                  ELSE DictSet(new, Head(appendDict)[1], Head(appendDict)[2]),
                  Tail(appendDict), default)

\* line.strip().startswith("linux")
StartsWithLinux(line) ==
  LET words == SelectSeq(line, LAMBDA t : t[1] # "") IN
  words # <<>> /\ Head(words)[1] = "linux"

\* lines 166-207 for one line starting with linux: linuxDefaultDict is made
\* of the first such line and kept for all later ones
PatchLinuxLine(line, default, url, entries) ==
  LET PopPatched(d) == DictPop(DictPop(DictPop(d, "pwh"), "service"), "lang")
      default1 == PopPatched(IF default = <<>> THEN LineDict(line, <<>>) ELSE default)
      appendDict == PopPatched(LineDict(line, <<>>))
      new1 == IF url # <<>> THEN DictSet(default1, "service", url) ELSE default1
      new2 == IF entries.pwhEntry.set THEN DictSet(new1, "pwh", entries.pwhEntry.value)
              ELSE new1
      new3 == IF entries.langEntry.set
              THEN DictSet(new2, "lang", UpToEquals(entries.langEntry.value)) ELSE new2
  IN [line |-> AddMissing(new3, appendDict, default1), default |-> default1]

\* lines 163-209: the lines of one file
RECURSIVE PatchLines(_, _, _, _, _)
PatchLines(lines, default, url, entries, newlines) ==
  IF lines = <<>> THEN [lines |-> newlines, default |-> default]
  ELSE IF StartsWithLinux(Head(lines))
       THEN LET p == PatchLinuxLine(Head(lines), default, url, entries) IN
            PatchLines(Tail(lines), p.default, url, entries, Append(newlines, p.line))
       ELSE PatchLines(Tail(lines), default, url, entries, Append(newlines, Head(lines)))

\* getConfigsFromService: the url of the config server with the default
\* values of opsi-linux-bootimage.append, or "" and [] when the service
\* cannot be reached
ServiceConfigs ==
  LET pwh == [key |-> "pwh", value |-> <<"$", "6", "$", "h">>]
      de == [key |-> "lang", value |-> <<"de">>]
      en == [key |-> "lang", value |-> <<"en">>]
      acpi == [key |-> "acpi", value |-> <<"off">>]
      clear == [key |-> "bootimageRootPassword", value |-> <<"secret">>]
  IN {[url |-> url, defaultValues |-> params] :
        url \in {<<"https://one:4447/rpc">>, <<"https://two:4447/rpc">>},
        params \in {<<>>, <<pwh>>, <<de>>, <<de, pwh>>, <<pwh, de>>, <<acpi, pwh>>,
                    <<pwh, acpi>>, <<pwh, acpi, de>>, <<clear>>, <<clear, de>>, <<en>>}}
     \cup {[url |-> <<>>, defaultValues |-> <<>>]}

\* patchMenuFile(config) with the answer of the service: lines 141-212,
\* /grub.cfg and, when it exists, /grub-menu.cfg
PatchMenu(answer) ==
  /\ menu.pc = "installed"
  /\ menu.patches < MaxPatches
  /\ LET NoEntry == [set |-> FALSE, value |-> <<>>]
         entries == AppendEntries(answer.defaultValues,
                                  [pwhEntry |-> NoEntry, langEntry |-> NoEntry])
         first == PatchLines(menu.files.grub, <<>>, answer.url, entries, <<>>)
         patched ==
           [grub |-> first.lines,
            menu |-> IF menu.files.menu = <<>> THEN <<>>
                     ELSE PatchLines(menu.files.menu, first.default, answer.url,
                                     entries, <<>>).lines]
     IN menu' = [menu EXCEPT
          !.patches = menu.patches + 1,
          !.supplied = answer,
          !.files = IF answer.defaultValues # <<>> \/ answer.url # <<>>
                    THEN patched ELSE menu.files]
  /\ UNCHANGED <<pcws, reg, fs, readers, remote, license, upd, startup, nextId, count, obs,
               conns, daemon, depot, svc, pidf, render, names, cfg, locks>>

\* the menu files of a fresh installation, without a grub-menu.cfg, with
\* one, and with one that has the values of an earlier installation
MenuInit ==
  /\ pcws = [w \in WriterIds |-> NoWriter]
  /\ reg = <<>>
  /\ fs = [p \in Paths |-> 0]
  /\ readers = [w \in WriterIds |-> FALSE]
  /\ remote = [h \in Hosts |-> [p \in Products |-> "none"]]
  /\ license = "uefi"
  /\ upd = [t \in Threads |-> IdleFrame]
  /\ startup = [NewStartupTask EXCEPT !.pc = "none"]
  /\ nextId = 1
  /\ count = [cmds |-> 0, reads |-> 0, signals |-> 0]
  /\ obs = [w \in WriterIds |-> NoObs]
  /\ conns = <<>>
  /\ daemon = [StartedDaemon EXCEPT !.pc = "none"]
  /\ depot = {}
  /\ svc = NoService
  /\ pidf = NoPidFile
  /\ render = NotCalled
  /\ names = NotCalled
  /\ cfg = NotCalled
  /\ LET Bare(key) == <<key, NoValue>>
         GrubCfg ==
           <<<<Bare("menuentry"), Bare("'opsi'"), Bare("{")>>,
             <<Bare(""), Bare(""), Bare("linux"), Bare("(pxe)/install-x64"),
               <<"console", <<"tty1">>>>>>,
             <<Bare(""), Bare(""), Bare("initrd"), Bare("(pxe)/miniroot-x64")>>,
             <<Bare("}")>>>>
         GrubMenuCfg ==
           <<<<Bare("linux"), Bare("(pxe)/install-x64"), Bare("quiet")>>>>
         GrubMenuCfgPatched ==
           <<<<Bare("linux"), Bare("(pxe)/install-x64"),
               <<"service", <<"https://old:4447/rpc">>>>,
               <<"pwh", <<"\\", "$", "1", "\\", "$", "o">>>>,
               <<"lang", <<"fr">>>>, Bare("quiet")>>>>
     IN menu \in {[pc |-> "installed", patches |-> 0,
                   supplied |-> [url |-> <<>>, defaultValues |-> <<>>],
                   files |-> [grub |-> GrubCfg, menu |-> menufile]] :
                   menufile \in {<<>>, GrubMenuCfg, GrubMenuCfgPatched}}
  /\ locks = NotCalled

MenuSpec ==
  /\ MenuInit
  /\ [][\/ \E answer \in ServiceConfigs : PatchMenu(answer)]_vars

\* C28: after patchMenuFile with an answer of the service, every linux line
\* of the menu files has the url of the answer as its service, the pwh of the
\* answer with each "$" escaped by one backslash as its pwh and the lang of
\* the answer as its lang, and has no pwh or lang when the answer has none.
C28_LinuxLines ==
  LET LineValues(line, key) == {line[i][2] : i \in {j \in 1..Len(line) : line[j][1] = key}}
      LinuxLinesOf(lines) ==
        {lines[i] : i \in {j \in 1..Len(lines) : StartsWithLinux(lines[j])}}
      Supplied(key) ==
        {menu.supplied.defaultValues[i].value :
           i \in {j \in 1..Len(menu.supplied.defaultValues) :
                    menu.supplied.defaultValues[j].key = key}}
  IN menu.pc = "installed" /\ menu.patches > 0 /\ menu.supplied.url # <<>> =>
       \A line \in LinuxLinesOf(menu.files.grub) \cup LinuxLinesOf(menu.files.menu) :
         /\ LineValues(line, "service") = {menu.supplied.url}
         /\ Supplied("bootimageRootPassword") = {} =>
              LineValues(line, "pwh") = {Escape(hash) : hash \in Supplied("pwh")}
         /\ LineValues(line, "lang") = Supplied("lang")

\* C29: a stop() on a writer stays in force: once stop() has been called
\* and has set _running to False, no step sets it again, so that the loop of
\* run() sees the request whenever the thread comes to it, also when the
\* stop() came after the writer was registered and before its thread ran.
C29_StopObserved ==
  [][\A w \in WriterIds :
       obs[w].stopCalled /\ ~pcws[w].running => ~pcws'[w].running]_vars

\* C30: whenever the thread of a writer has ended, after a read, after a
\* stop() or after an error of run(), the fifo that the writer made is not
\* in the PXE directory any more.
C30_CleanupOnExit ==
  \A w \in WriterIds : Terminated(w) => FileOf(w) # w

(* ---- an update that fails after its writer was made ---- *)

\* lines 449-461: pcw.start() raises (no new thread can be started); the
\* handler takes the writer off the list and raises again, and the reply is
\* the error marker
StartFails(t) ==
  /\ upd[t].pc = "start"
  /\ reg' = ListRemove(reg, upd[t].w)
  /\ upd' = [upd EXCEPT ![t] = Return(upd[t], "error")]
  /\ UNCHANGED <<pcws, fs, readers, remote, license, startup, nextId, count, obs,
               conns, daemon, depot, svc, pidf,
               render, names, cfg, menu, locks>>

FailSpec ==
  /\ Init
  /\ [][\/ Next
        \/ \E t \in Threads : StartFails(t)]_vars

\* C32: after an update that made a writer has returned an error, that
\* writer is not in the writer list, its thread does not run and the fifo
\* it made is not in the PXE directory.
C32_FailedUpdateCleansUp ==
  \A t \in Threads :
    upd[t].pc = "ret" /\ upd[t].res = "error" /\ upd[t].w # 0 =>
      /\ ~InList(reg, upd[t].w)
      /\ pcws[upd[t].w].pc \in {"new", "done", "crashed"}
      /\ FileOf(upd[t].w) # upd[t].w

(* ---- the startup task and Opsipxeconfd.stop ---- *)

\* the daemon accepts, its startup task is started and has not run yet;
\* both hosts are clients of the depot with a pending action; no command
\* comes in, SIGTERM may.  Each client is updated once, so the writers that
\* _removeCurrentConfigWriters collects (lines 470-474) are none and its loop
\* of lines 476-487 has no step here.
StopInit ==
  /\ pcws = [w \in WriterIds |-> NoWriter]
  /\ reg = <<>>
  /\ fs = [p \in Paths |-> 0]
  /\ readers = [w \in WriterIds |-> FALSE]
  /\ remote = [h \in Hosts |-> [p \in Products |-> IF p = "n1" THEN "setup" ELSE "none"]]
  /\ license \in {"plain", "uefi"}
  /\ upd = [t \in Threads |-> IdleFrame]
  /\ startup = NewStartupTask
  /\ nextId = 1
  /\ count = [cmds |-> 0, reads |-> 0, signals |-> 0]
  /\ obs = [w \in WriterIds |-> NoObs]
  /\ conns = <<>>
  /\ daemon = AcceptingDaemon
  /\ depot = Hosts
  /\ svc = NoService
  /\ pidf = NoPidFile
  /\ render = NotCalled
  /\ names = NotCalled
  /\ cfg = NotCalled
  /\ menu = NotCalled
  /\ locks = NotCalled

StopSpec ==
  /\ StopInit
  /\ [][\/ Signal
        \/ \E t \in Threads : StopStartupTask(t)
        \/ \E t \in Threads : StopSocket(t)
        \/ \E t \in Threads : StopFlag(t)
        \/ DaemonExit
        \/ StartupBegin
        \/ \E h \in Hosts : StartupNext(h)
        \/ StartupStopped
        \/ StartupFinish
        \/ \E t \in Threads : RemoveCurrentCollect(t)
        \/ \E t \in Threads : CheckExisting(t)
        \/ \E t \in Threads : Construct(t)
        \/ \E t \in Threads : Register(t)
        \/ \E t \in Threads : Start(t)
        \/ \E p \in Paths : ReaderOpen(p)
        \/ \E w \in WriterIds : WriterBegin(w)
        \/ \E w \in WriterIds : WriterOpen(w)
        \/ \E w \in WriterIds : WriterUnlink(w)
        \/ \E w \in WriterIds : Callback(w)]_vars

\* C33: once stop() has been called on the startup task, the task calls
\* updateBootConfiguration for no further client, and the next step of its
\* loop ends the thread; this holds also for a stop() that came before run().
C33_StartupTaskStops ==
  [][startup.shouldStop =>
       /\ startup'.calls = startup.calls
       /\ (startup.pc = "loop" /\ startup' # startup => startup'.pc = "done")]_vars

\* the task was stopped during its first update and has ended with a client
\* left that it did not update
C33_Witness ==
  /\ startup.shouldStop
  /\ startup.pc = "done"
  /\ Len(startup.calls) = 1
  /\ startup.clientIds # {}

\* C34: "update <host>" runs the replacement before it looks anything up:
\* the step that collects takes every writer registered for the host out of
\* the writer list, and from the first lookup on, and when the call has
\* returned with whatever outcome, each of them is out of the list and had
\* its stop() called.
C34_ReplaceBeforeLookup ==
  [][\A t \in Threads :
       /\ upd[t].op = "update" /\ Leaves(t, "remove")
            => /\ \A i \in 1..Len(reg') : pcws[reg'[i]].host # upd[t].host
               /\ \A i \in 1..Len(reg) :
                    pcws[reg[i]].host = upd[t].host => InList(upd'[t].currentPcws, reg[i])
       /\ upd'[t].op = "update" /\ forceHostId(upd'[t].host)
          /\ upd'[t].pc \notin {"idle", "remove", "stop"}
            => \A i \in 1..Len(upd'[t].currentPcws) :
                 /\ obs'[upd'[t].currentPcws[i]].stopCalled
                 /\ ~InList(reg', upd'[t].currentPcws[i])]_vars

\* an update that made no writer has returned, and the writer that was
\* registered for its host is replaced
C34_Witness ==
  \E t \in Threads :
    /\ upd[t].op = "update" /\ upd[t].pc = "ret" /\ upd[t].w = 0
    /\ upd[t].currentPcws # <<>>

C36_ReplacementTerminates ==
  \A t \in Threads :
    /\ upd[t].pc = "remove" => ENABLED RemoveCurrentCollect(t)
    /\ upd[t].pc = "stop" =>
         /\ upd[t].todo # <<>>
         /\ Len(upd[t].todo) <= Len(upd[t].currentPcws)
         /\ ENABLED RemoveCurrentStop(t)

\* a call has gone through the loop and returned while the thread of a
\* writer it stopped has not ended
C36_Witness ==
  \E t \in Threads :
    /\ upd[t].pc = "ret" /\ upd[t].todo = <<>>
    /\ \E i \in 1..Len(upd[t].currentPcws) :
         /\ obs[upd[t].currentPcws[i]].stopCalled
         /\ pcws[upd[t].currentPcws[i]].pc \in {"started", "loop", "unlink", "cb", "cbupd"}

\* C37: no dead writer stays registered: a writer whose thread has ended,
\* for whatever reason, is eventually not in the writer list.
C37_NoDeadWriterRegistered ==
  \A w \in WriterIds :
    Terminated(w) ~> ~InList(reg, w)

\* C38: the cleanup of a writer removes only a file that this writer
\* created: the step of lines 270-271 in the thread of writer w takes away
\* no file that another writer has put at the path since.
C38_CleanupOwnFileOnly ==
  [][\A w \in WriterIds :
       pcws[w].pc = "unlink" /\ pcws'[w].pc # "unlink"
         => \A p \in Paths : fs'[p] # fs[p] => fs[p] = w]_vars

\* C39: a step of "update h" or "remove h" leaves the writers of every other
\* host alone: it takes none of them out of the writer list, calls stop() on
\* none, and removes the file of none, registered or not yet registered.
C39_OtherHostsUntouched ==
  [][\A t \in Threads :
       upd[t].op \in {"update", "remove"} /\ upd[t].pc \notin {"idle", "ret"}
       /\ upd'[t] # upd[t]
         => \A w \in WriterIds :
              Created(w) /\ pcws[w].host # upd[t].host
                => /\ InList(reg, w) => InList(reg', w)
                   /\ obs'[w].stopCalled = obs[w].stopCalled
                   /\ \A p \in Paths : fs[p] = w => fs'[p] = w]_vars

\* C40: the text of the status command does not depend on the key of a
\* host: the configuration it prints for a registered writer, also for one
\* whose constructor returned early, has no pckey entry with the key of a
\* host, so that two runs that differ only in the keys print the same text.
C40_StatusHidesKey ==
  render.status.set =>
    \A i \in 1..Len(render.status.configuration) :
      render.status.configuration[i][1] = "pckey" => render.status.configuration[i][2] = None

(* ---- the mutexes of the two lists ---- *)

MaxHandlers == 2     \* threads that run a handler of Opsipxeconfd at the same time

\* the handlers of Opsipxeconfd that touch self._clientConnections or
\* self._pxeConfigWriters, each as the sequence in which its code takes and
\* gives back a mutex ("acquire"/"release": the with blocks), reads or
\* changes a list ("read"/"write"), waits for a writer thread ("wait":
\* pcw.stop() and the polling / join of lines 476-487) or calls the service
\* or the file system ("io"):
\*   _getConnection, lines 181-186; clientConnectionCallback, lines 225-227;
\*   pxeConfigWriterCallback, lines 245-275; status, lines 283-296;
\*   updateBootConfiguration, line 305 (_removeCurrentConfigWriters, lines
\*   470-487), lines 319-380, 383, 394, 439, 446-449
Accesses(handler) ==
  LET Op(op, on) == [op |-> op, on |-> on] IN
  CASE handler = "_getConnection" ->
         <<Op("read", "connections"), Op("io", "none"), Op("acquire", "connections"),
           Op("write", "connections"), Op("release", "connections"), Op("io", "none")>>
    [] handler = "clientConnectionCallback" ->
         <<Op("acquire", "connections"), Op("write", "connections"),
           Op("release", "connections")>>
    [] handler = "pxeConfigWriterCallback" ->
         <<Op("acquire", "writers"), Op("write", "writers"), Op("release", "writers"),
           Op("io", "none")>>
    [] handler = "status" ->
         <<Op("acquire", "connections"), Op("read", "connections"),
           Op("release", "connections"), Op("read", "writers"), Op("read", "writers")>>
    [] handler = "updateBootConfiguration" ->
         <<Op("acquire", "writers"), Op("read", "writers"), Op("write", "writers"),
           Op("release", "writers"), Op("wait", "none"), Op("io", "none"),
           Op("read", "writers"), Op("io", "none"), Op("read", "writers"),
           Op("io", "none"), Op("acquire", "writers"), Op("write", "writers"),
           Op("release", "writers"), Op("io", "none")>>

\* the thread t runs the next step of its handler; threading.Lock is not
\* reentrant, so acquire waits while any thread, t included, holds the mutex
LockStep(t) ==
  /\ locks.pc = "run"
  /\ locks.at[t] <= Len(Accesses(locks.handler[t]))
  /\ LET a == Accesses(locks.handler[t])[locks.at[t]] IN
     /\ a.op = "acquire" => locks.holder[a.on] = 0
     /\ locks' = [locks EXCEPT
                    !.at[t] = locks.at[t] + 1,
                    !.holder = IF a.op = "acquire" THEN [locks.holder EXCEPT ![a.on] = t]
                               ELSE IF a.op = "release" THEN [locks.holder EXCEPT ![a.on] = 0]
                               ELSE locks.holder]
  /\ UNCHANGED <<pcws, reg, fs, readers, remote, license, upd, startup, nextId, count, obs,
               conns, daemon, depot, svc, pidf, render, names, cfg, menu>>

\* MaxHandlers threads, each about to run one of the handlers; both mutexes
\* are free
LockInit ==
  /\ pcws = [w \in WriterIds |-> NoWriter]
  /\ reg = <<>>
  /\ fs = [p \in Paths |-> 0]
  /\ readers = [w \in WriterIds |-> FALSE]
  /\ remote = [h \in Hosts |-> [p \in Products |-> "none"]]
  /\ license = "uefi"
  /\ upd = [t \in Threads |-> IdleFrame]
  /\ startup = [NewStartupTask EXCEPT !.pc = "none"]
  /\ nextId = 1
  /\ count = [cmds |-> 0, reads |-> 0, signals |-> 0]
  /\ obs = [w \in WriterIds |-> NoObs]
  /\ conns = <<>>
  /\ daemon = [StartedDaemon EXCEPT !.pc = "none"]
  /\ depot = {}
  /\ svc = NoService
  /\ pidf = NoPidFile
  /\ render = NotCalled
  /\ names = NotCalled
  /\ cfg = NotCalled
  /\ menu = NotCalled
  /\ locks \in {[pc |-> "run",
                 holder |-> [r \in {"connections", "writers"} |-> 0],
                 at |-> [t \in 1..MaxHandlers |-> 1],
                 handler |-> handler] :
                 handler \in [1..MaxHandlers ->
                                {"_getConnection", "clientConnectionCallback",
                                 "pxeConfigWriterCallback", "status",
                                 "updateBootConfiguration"}]}

LockSpec == LockInit /\ [][\E t \in 1..MaxHandlers : LockStep(t)]_vars

\* C31: every read and every change of the list of connections and of the
\* list of writers is made by a thread that holds the mutex of the list; a
\* thread that waits for a writer thread or calls the service or the file
\* system holds neither mutex; and no thread waits for a mutex for ever:
\* while a handler has steps left, some thread can take a step.
C31_LockDiscipline ==
  [][/\ \A t \in 1..MaxHandlers :
          locks'.at[t] # locks.at[t] =>
            LET a == Accesses(locks.handler[t])[locks.at[t]] IN
            /\ a.op \in {"read", "write"} => locks.holder[a.on] = t
            /\ a.op \in {"wait", "io"} => \A r \in DOMAIN locks.holder : locks.holder[r] # t
     /\ (\E t \in 1..MaxHandlers : locks'.at[t] <= Len(Accesses(locks.handler[t])))
          => \E t \in 1..MaxHandlers : (ENABLED LockStep(t))']_vars

====
